---- MODULE Spec2Model ----
(***************************************************************************)
(* A model of the mesh-painting engine of chameleon.ts: the face adjacency *)
(* graph built by the TextureManager constructor, the flood-fill of        *)
(* _add_recursive, the AffectedFacesRecorder, the two texture layouts of   *)
(* the TextureManager and the event handlers of Controls.                  *)
(*                                                                         *)
(* Numbers.  UV coordinates are kept as integer numerators over UVDen; the *)
(* meshes, cameras and canvas sizes below are chosen so that every pixel   *)
(* coordinate u * width and (1 - v) * height is an integer.  A viewing UV  *)
(* is the fraction <<numerator, denominator>> the code divides; a zero     *)
(* denominator stands for the non-finite result of that division.          *)
(* The camera collaborator (three.js camera + trackball controls) is       *)
(* reduced to a view direction, a zoom level and the frustum aspect ratio. *)
(***************************************************************************)
EXTENDS Integers, Sequences, FiniteSets, TLC

\* ------------------------------------------------------------------ bounds
\* camera.zoom ranges over 1 .. MaxZoom
MaxZoom == 2
\* at most MaxPatches patch canvases are created by reconciliations
MaxPatches == 1

\* ------------------------------------------------------------ number model
\* half extent of the orthographic frustum.  Coordinates are in quarters of
\* a world unit.  The Controls constructor makes viewSize 2 * 1.25 times the
\* larger of 1 and the largest distance of a vertex from the origin, and no
\* vertex of the meshes below is farther than 1 unit (4 quarters) from the
\* origin; handleResize gives the frustum the half extent viewSize / 2, which
\* is 1.25 units
Half == 5
\* denominator of the integer UV representation
UVDen == 4 * Half
\* an undefined number (the radius of a brush built before changeBrushSize)
Undefined == 0 - 1

\* the sizes the host passes to changeBrushSize
BrushSizes == {0, 4}
ZoomLevels == 1..MaxZoom
Views == {"front", "side"}
CanvasSizes == {<<20, 20>>}
\* pointer positions (canvas pixels) the mouse events are drawn from
PointerPositions == {[x |-> 9, y |-> 11], [x |-> 12, y |-> 11], [x |-> 15, y |-> 10]}

ZeroBased(s) == [i \in 0..(Len(s) - 1) |-> s[i + 1]]

Dot3(a, b) == a[1] * b[1] + a[2] * b[2] + a[3] * b[3]

Max2(a, b) == IF a >= b THEN a ELSE b
Min2(a, b) == IF a <= b THEN a ELSE b

\* --------------------------------------------------------------- the meshes
MkFace(a, b, c, n) == [a |-> a, b |-> b, c |-> c, normal |-> n]

\* a roof (face 0 on the left slope, faces 1 and 2 on the right slope,
\* meeting in the ridge from vertex 1 to vertex 2) and a detached island
\* triangle (face 3)
RoofMesh ==
  [vertices |-> ZeroBased(<< <<-2, -1, 0>>, <<0, -1, 1>>, <<0, 1, 1>>,
                             <<2, -1, 0>>, <<2, 1, 0>>,
                             <<3, -1, 0>>, <<4, 0, 0>>, <<3, 1, 0>> >>),
   faces |-> ZeroBased(<< MkFace(0, 1, 2, <<-1, 0, 2>>), MkFace(1, 4, 2, <<1, 0, 2>>),
                          MkFace(1, 3, 4, <<1, 0, 2>>), MkFace(5, 6, 7, <<0, 0, 1>>) >>)]

\* a cube of side 1 about the origin (BoxGeometry(1, 1, 1) with its vertices
\* merged): 8 vertices and 12 faces, two per side, in the order +x, -x, +y,
\* -y, +z, -z
CubeMesh ==
  [vertices |-> ZeroBased(<< <<-2, -2, -2>>, <<2, -2, -2>>, <<-2, 2, -2>>, <<2, 2, -2>>,
                             <<-2, -2, 2>>, <<2, -2, 2>>, <<-2, 2, 2>>, <<2, 2, 2>> >>),
   faces |-> ZeroBased(<< MkFace(1, 3, 7, <<1, 0, 0>>), MkFace(1, 7, 5, <<1, 0, 0>>),
                          MkFace(0, 4, 6, <<-1, 0, 0>>), MkFace(0, 6, 2, <<-1, 0, 0>>),
                          MkFace(2, 6, 7, <<0, 1, 0>>), MkFace(2, 7, 3, <<0, 1, 0>>),
                          MkFace(0, 1, 5, <<0, -1, 0>>), MkFace(0, 5, 4, <<0, -1, 0>>),
                          MkFace(4, 5, 7, <<0, 0, 1>>), MkFace(4, 7, 6, <<0, 0, 1>>),
                          MkFace(0, 3, 1, <<0, 0, -1>>), MkFace(0, 2, 3, <<0, 0, -1>>) >>)]

\* a flat sheet: a rectangle of two triangles (faces 0 and 1) and a third
\* triangle (face 2) on the rectangle's right edge
PatchMesh ==
  [vertices |-> ZeroBased(<< <<-3, -2, 0>>, <<-1, -2, 0>>, <<-1, 0, 0>>, <<-3, 0, 0>>,
                             <<1, -1, 0>> >>),
   faces |-> ZeroBased(<< MkFace(0, 1, 2, <<0, 0, 1>>), MkFace(0, 2, 3, <<0, 0, 1>>),
                          MkFace(1, 4, 2, <<0, 0, 1>>) >>)]

\* the meshes the constructor is run on: MeshFaces faces over a flat sheet
\* with a duplicated vertex position (vertices 1 and 4); a face is one of
\* the corner triples below (the last names vertex 3 twice) with one of the
\* normals below
MeshFaces == 3
SheetVertices == ZeroBased(<< <<-2, -2, 0>>, <<0, -2, 0>>, <<-2, 0, 0>>, <<0, 0, 0>>,
                              <<0, -2, 0>>, <<2, -2, 0>>, <<2, 0, 0>> >>)
CornerChoices == {<<0, 1, 2>>, <<4, 3, 2>>, <<1, 5, 3>>, <<3, 3, 6>>}
NormalChoices == {<<0, 0, 1>>, <<0, 0, -1>>, <<1, 0, 0>>}
FaceChoices == {MkFace(t[1], t[2], t[3], n) : t \in CornerChoices, n \in NormalChoices}
SheetMeshes == {[vertices |-> SheetVertices, faces |-> fs] :
                  fs \in [0..(MeshFaces - 1) -> FaceChoices]}

FaceIds(g) == DOMAIN g.faces
FaceVertices(g, f) == <<g.faces[f].a, g.faces[f].b, g.faces[f].c>>

\* ------------------------------------------------- the adjacency graph
\* an adjacency is [nadj, adj]: _nAdjacentFaces and, for every face, the
\* live prefix of _AdjacentFacesList[face]
EmptyAdjacency(g) == [nadj |-> [f \in FaceIds(g) |-> 0], adj |-> [f \in FaceIds(g) |-> <<>>]]

\* the pairs i < j in the order the two outer loops of the constructor
\* visit them, from the pair (i, j) on: the rest of the row of i, then the
\* rows of the faces after i
RECURSIVE PairsFrom(_, _, _)
PairsFrom(n, i, j) ==
  IF i >= n - 1 THEN <<>>
  ELSE [m \in 1..(n - j) |-> <<i, j + m - 1>>] \o PairsFrom(n, i + 1, i + 2)

FacePairs(g) == PairsFrom(Cardinality(FaceIds(g)), 0, 1)

\* a count of the k, l loops that leaves the normals out
CoincidenceCountAnyNormal(g, i, j) ==
  LET vi == FaceVertices(g, i)
      vj == FaceVertices(g, j)
  IN  Cardinality({kl \in (1..3) \X (1..3) : g.vertices[vi[kl[1]]] = g.vertices[vj[kl[2]]]})

\* TextureManager constructor, the count of the k, l loops for faces i < j
CoincidenceCount(g, i, j) ==
  LET vi == FaceVertices(g, i)
      vj == FaceVertices(g, j)
  IN  Cardinality({kl \in (1..3) \X (1..3) :
                     /\ g.vertices[vi[kl[1]]] = g.vertices[vj[kl[2]]]
                     /\ Dot3(g.faces[i].normal, g.faces[j].normal) > 0})

\* a slip that records the pair in the lower face's list only
RecordNeighborsOneWay(a, i, j) ==
  [nadj |-> [a.nadj EXCEPT ![i] = @ + 1],
   adj |-> [a.adj EXCEPT ![i] = Append(@, j)]]

\* the four assignments under 'if (count == 2)': j enters i's list and i
\* enters j's list
RecordNeighbors(a, i, j) ==
  [nadj |-> [a.nadj EXCEPT ![i] = @ + 1, ![j] = @ + 1],
   adj |-> [a.adj EXCEPT ![i] = Append(@, j), ![j] = Append(@, i)]]

\* one round of the i, j loops
ConstructorPair(g, a, i, j) ==
  IF CoincidenceCount(g, i, j) = 2 THEN RecordNeighbors(a, i, j) ELSE a

\* the i, j loops from the pair number k + 1 to the end
RECURSIVE ConstructorLoop(_, _, _)
ConstructorLoop(g, a, k) ==
  IF k >= Len(FacePairs(g)) THEN a
  ELSE LET p == FacePairs(g)[k + 1]
       IN  ConstructorLoop(g, ConstructorPair(g, a, p[1], p[2]), k + 1)

BuildAdjacency(g) == ConstructorLoop(g, EmptyAdjacency(g), 0)

\* ----------------------------------------------------- camera collaborator
\* camera.position up to a positive factor (only the sign of a dot product
\* with it is ever used)
CameraPosition(cam) == IF cam.view = "front" THEN <<0, 0, 1>> ELSE <<1, 0, 0>>

\* screen-plane coordinates of a world point for the view direction
ScreenXY(cam, p) == IF cam.view = "front" THEN <<p[1], p[2]>> ELSE <<0 - p[3], p[2]>>

\* a canvas without pixels: its width times its height is 0
ZeroSized(size) == size[1] * size[2] = 0

\* OrthographicCameraControls.handleResize: the frustum is widened by
\* width / height along x (the canvas sizes used are never taller than wide,
\* unless they have no pixels: then the quotient of the sides is infinite or
\* NaN and so are the frustum's extents, which the ratio 0 stands for)
AspectRatio(size) == IF ZeroSized(size) THEN 0 ELSE size[1] \div size[2]

\* prepareDrawingTexture, 'project(this.camera)' then (x + 1) / 2: the
\* drawing UV of a vertex, as numerators over UVDen
ProjectVertex(cam, p) ==
  LET s == ScreenXY(cam, p)
  IN  [x |-> (2 * cam.zoom * s[1] + 2 * Half * cam.ratio) \div cam.ratio,
       y |-> 2 * cam.zoom * s[2] + 2 * Half]

\* prepareDrawingTexture, the two loops: the three drawing UVs of face f
ProjectFaceUvs(g, cam, f) ==
  <<ProjectVertex(cam, g.vertices[g.faces[f].a]),
    ProjectVertex(cam, g.vertices[g.faces[f].b]),
    ProjectVertex(cam, g.vertices[g.faces[f].c])>>

\* ------------------------------------------------------ 2D collision tests
\* point.x of a value that may lack the field (a JavaScript array has none)
HasXY(point) == {"x", "y"} \subseteq DOMAIN point

PointCircleCollide(point, circle, r) ==
  IF r = 0 THEN FALSE
  ELSE IF ~HasXY(point) \/ r = Undefined THEN FALSE  \* NaN <= r * r, or d <= NaN
  ELSE LET dx == circle.x - point.x
           dy == circle.y - point.y
       IN  dx * dx + dy * dy <= r * r

LineCircleCollide(a, b, circle, radius) ==
  IF PointCircleCollide(a, circle, radius) THEN TRUE
  ELSE IF PointCircleCollide(b, circle, radius) THEN TRUE
  ELSE LET dx == b.x - a.x
           dy == b.y - a.y
           lcx == circle.x - a.x
           lcy == circle.y - a.y
           dLen2 == dx * dx + dy * dy
           \* dp = lcd / dLen2; px, py and pLen2 are kept multiplied by
           \* dLen2 and dLen2 * dLen2 (by 1 when dLen2 = 0)
           lcd == lcx * dx + lcy * dy
           pxN == IF dLen2 > 0 THEN dx * lcd ELSE dx
           pyN == IF dLen2 > 0 THEN dy * lcd ELSE dy
           \* 'nearest' is an array [x1 + px, y1 + py]: it has no x and no y
           nearest == [i0 |-> pxN, i1 |-> pyN]
           pLen2LeqDLen2 == IF dLen2 > 0 THEN lcd * lcd <= dLen2 * dLen2 ELSE TRUE
           pDotD == pxN * dx + pyN * dy
       IN  PointCircleCollide(nearest, circle, radius) /\ pLen2LeqDLen2 /\ pDotD >= 0

PointInTriangle(point, t0, t1, t2) ==
  LET cx == point.x
      cy == point.y
      v0x == t2.x - t0.x
      v0y == t2.y - t0.y
      v1x == t1.x - t0.x
      v1y == t1.y - t0.y
      v2x == cx - t0.x
      v2y == cy - t0.y
      dot00 == v0x * v0x + v0y * v0y
      dot01 == v0x * v1x + v0y * v1y
      dot02 == v0x * v2x + v0y * v2y
      dot11 == v1x * v1x + v1y * v1y
      dot12 == v1x * v2x + v1y * v2y
      b == dot00 * dot11 - dot01 * dot01
      \* u = uN * inv and v = vN * inv with inv = 1 / b, and b > 0 unless b = 0
      uN == dot11 * dot02 - dot01 * dot12
      vN == dot00 * dot12 - dot01 * dot02
  IN  IF b = 0
      THEN 0 >= 0 /\ 0 >= 0 /\ 0 + 0 <= 1          \* inv = 0, so u = v = 0
      ELSE uN >= 0 /\ vN >= 0 /\ uN + vN <= b

\* _add_recursive, lines 612-623: a drawing UV in pixels of the drawing canvas
UvToPixel(uv, size) ==
  [x |-> (uv.x * size[1]) \div UVDen, y |-> ((UVDen - uv.y) * size[2]) \div UVDen]

\* an intersection test that rejects every face when the radius is 0
FaceIntersectsCircleFastReject(uvs, size, center, radius) ==
  LET v1 == UvToPixel(uvs[1], size)
      v2 == UvToPixel(uvs[2], size)
      v3 == UvToPixel(uvs[3], size)
  IN  /\ radius # 0
      /\ \/ PointInTriangle(center, v1, v2, v3)
         \/ LineCircleCollide(v1, v2, center, radius)
         \/ LineCircleCollide(v2, v3, center, radius)
         \/ LineCircleCollide(v3, v1, center, radius)

\* an intersection test that only asks whether the centre is in the triangle
FaceIntersectsCircleInsideOnly(uvs, size, center, radius) ==
  PointInTriangle(center, UvToPixel(uvs[1], size), UvToPixel(uvs[2], size),
                  UvToPixel(uvs[3], size))

\* _add_recursive, lines 625-629: does the face's triangle meet the circle
FaceIntersectsCircle(uvs, size, center, radius) ==
  LET v1 == UvToPixel(uvs[1], size)
      v2 == UvToPixel(uvs[2], size)
      v3 == UvToPixel(uvs[3], size)
      inside == PointInTriangle(center, v1, v2, v3)
      collide1 == LineCircleCollide(v1, v2, center, radius)
      collide2 == LineCircleCollide(v2, v3, center, radius)
      collide3 == LineCircleCollide(v3, v1, center, radius)
  IN  inside \/ collide1 \/ collide2 \/ collide3

\* ------------------------------------------------ AffectedFacesRecorder
\* a recorder is [n, faces, is]: _nAffectedFaces, the live prefix of
\* _affectedFaces and _isFaceAffected
NewRecorder(g) == [n |-> 0, faces |-> <<>>, is |-> [f \in FaceIds(g) |-> 0]]

\* an add that puts the new face in front of the others
RecorderAddInFront(rec, faceIndex) ==
  IF faceIndex \in DOMAIN rec.is /\ rec.is[faceIndex] # 0
  THEN rec
  ELSE [n |-> rec.n + 1,
        faces |-> <<faceIndex>> \o rec.faces,
        is |-> IF faceIndex \in DOMAIN rec.is
               THEN [rec.is EXCEPT ![faceIndex] = 1] ELSE rec.is]

\* an add without the test of _isFaceAffected
RecorderAddUntested(rec, faceIndex) ==
  [n |-> rec.n + 1,
   faces |-> IF rec.n < Cardinality(DOMAIN rec.is)
             THEN Append(rec.faces, faceIndex) ELSE rec.faces,
   is |-> IF faceIndex \in DOMAIN rec.is
          THEN [rec.is EXCEPT ![faceIndex] = 1] ELSE rec.is]

\* AffectedFacesRecorder.add; a typed-array read out of range is undefined
\* and a write out of range is dropped (a negative faceIndex, which the
\* Uint32Array would keep modulo 2^32, is not among the inputs of add)
RecorderAdd(rec, faceIndex) ==
  IF faceIndex \in DOMAIN rec.is /\ rec.is[faceIndex] # 0
  THEN rec
  ELSE [n |-> rec.n + 1,
        faces |-> IF rec.n < Cardinality(DOMAIN rec.is)
                  THEN Append(rec.faces, faceIndex) ELSE rec.faces,
        is |-> IF faceIndex \in DOMAIN rec.is
               THEN [rec.is EXCEPT ![faceIndex] = 1] ELSE rec.is]

\* a reset that sets the count back and leaves the flags
RecorderResetCountOnly(rec) == [n |-> 0, faces |-> <<>>, is |-> rec.is]

\* AffectedFacesRecorder.reset
RecorderReset(rec) == [n |-> 0, faces |-> <<>>, is |-> [f \in DOMAIN rec.is |-> 0]]

RecorderContains(rec, faceIndex) == faceIndex \in DOMAIN rec.is /\ rec.is[faceIndex] # 0

\* --------------------------------------------------------- the flood fill
\* st = [ff, rec]: _isFloodFill and the recorder.
\* env = [g, adj, nadj, uvs, size, cam]: what the recursion only reads.
RECURSIVE AddRecursive(_, _, _, _, _)
RECURSIVE AddNeighbors(_, _, _, _, _, _)

\* the for loop of _add_recursive over the neighbours of faceIndex from i on
AddNeighbors(st, env, faceIndex, i, center, radius) ==
  IF i >= env.nadj[faceIndex] THEN st
  ELSE LET newfaceIndex == env.adj[faceIndex][i + 1]
           cameradirection == CameraPosition(env.cam)
           st1 == IF Dot3(env.g.faces[newfaceIndex].normal, cameradirection) > 0
                  THEN AddRecursive(st, env, newfaceIndex, center, radius)
                  ELSE st
       IN  AddNeighbors(st1, env, faceIndex, i + 1, center, radius)

\* _add_recursive; s and f are st and faceIndex, each evaluated once
AddRecursive(st, env, faceIndex, center, radius) ==
  CHOOSE out \in
    {IF f >= 0 /\ s.ff[f] = 0
     THEN IF FaceIntersectsCircle(env.uvs[f], env.size, center, radius)
          THEN AddNeighbors([ff |-> [s.ff EXCEPT ![f] = 1], rec |-> RecorderAdd(s.rec, f)],
                            env, f, 0, center, radius)
          ELSE s
     ELSE s : s \in {st}, f \in {faceIndex}} : TRUE

\* _castRayFromMouse: the faces the pointer ray meets, nearest first.  The
\* ray is cast through the current camera against the mesh in world space;
\* faces are single-sided.  Coordinates are compared multiplied by
\* UVDen * (drawing canvas size).
Edge2(a, b, p) == (b[1] - a[1]) * (p[2] - a[2]) - (b[2] - a[2]) * (p[1] - a[1])

RayMeetsFace(g, cam, size, canvasPos, f) ==
  /\ Dot3(g.faces[f].normal, CameraPosition(cam)) > 0
  /\ \E uv \in {ProjectFaceUvs(g, cam, f)} :
       LET t(k) == <<uv[k].x * size[1], uv[k].y * size[2]>>
           m == <<canvasPos.x * UVDen, (size[2] - canvasPos.y) * UVDen>>
           area == Edge2(t(1), t(2), t(3))
           e1 == Edge2(t(1), t(2), m)
           e2 == Edge2(t(2), t(3), m)
           e3 == Edge2(t(3), t(1), m)
       IN  /\ area # 0
           /\ \/ e1 >= 0 /\ e2 >= 0 /\ e3 >= 0
              \/ e1 <= 0 /\ e2 <= 0 /\ e3 <= 0

\* intersections[0].face.materialIndex, or -1 when there is no intersection
\* (front faces of the meshes used never hide one another, so the nearest
\* hit is the first face in face order).  With a drawing canvas without
\* pixels or a frustum without finite extents the ray's origin is not a
\* point (its coordinates are infinite or NaN) and the ray meets nothing.
CastRayFromMouse(g, cam, size, canvasPos) ==
  IF ZeroSized(size) \/ cam.ratio = 0 THEN 0 - 1
  ELSE LET hits == {f \in FaceIds(g) : RayMeetsFace(g, cam, size, canvasPos, f)}
       IN  IF hits = {} THEN 0 - 1 ELSE CHOOSE f \in hits : \A h \in hits : f <= h


\* ------------------------------------------------------------------- state
VARIABLES
  geometry,              \* the mesh handed to Chameleon.create (never mutated)
  nAdjacentFaces,        \* TextureManager._nAdjacentFaces
  AdjacentFacesList,     \* TextureManager._AdjacentFacesList, live prefixes
  pairsDone,             \* rounds of the constructor's i, j loops completed
  state,                 \* Controls._state: "Idle", "Draw" or "View"
  usingViewingTexture,   \* Controls._usingViewingTexture
  meshMaterial,          \* Controls._mesh.material: "viewing" or "drawing"
  meshUvs,               \* geometry.faceVertexUvs[0]: "viewing" or "drawing"
  affected,              \* TextureManager._affectedFaces, a recorder
  isFloodFill,           \* TextureManager._isFloodFill
  viewingTextureUvs,     \* TextureManager._viewingTextureUvs
  viewingPatch,          \* _viewingMaterial.materials[f].map.image (0: the 1x1 canvas)
  drawingTextureUvs,     \* TextureManager._drawingTextureUvs
  drawingCanvas,         \* size of TextureManager._drawingCanvas
  drawingSnapshot,       \* what prepareDrawingTexture last rendered into it
  canvas,                \* size of Controls.canvas (and of the renderer)
  camera,                \* [view, zoom, ratio] of Controls._camera
  rotateEnd,             \* CameraControlsBase._rotateEnd when it differs from _rotateStart
  zoomStart,             \* the zoom zoomCamera will apply (from _zoomStart, _zoomEnd), in levels
  brush,                 \* Controls.brush: [radius, stroking]
  listening,             \* are _mousemove and _mouseup registered on the document
  nPatches,              \* how many patch canvases prepareViewingTexture has created
  patchCanvases,         \* for each of them, in order of creation, its size and the
                         \* rectangle of the drawing canvas drawImage copied into it
  call,                  \* the last direct call of a core operation, with its result
  lastEvent              \* the last _mousedown, stroke _mousemove or _mouseup, with
                         \* what it saw on entry

vars == <<geometry, nAdjacentFaces, AdjacentFacesList, pairsDone, state, usingViewingTexture,
          meshMaterial, meshUvs, affected, isFloodFill, viewingTextureUvs, viewingPatch,
          drawingTextureUvs, drawingCanvas, drawingSnapshot, canvas, camera, rotateEnd,
          zoomStart, brush, listening, nPatches, patchCanvases, call, lastEvent>>

meshVars == <<geometry, nAdjacentFaces, AdjacentFacesList, pairsDone>>
viewingVars == <<usingViewingTexture, meshMaterial, meshUvs, viewingTextureUvs, viewingPatch>>
drawingVars == <<drawingTextureUvs, drawingCanvas, drawingSnapshot>>
cameraVars == <<camera, rotateEnd, zoomStart>>

Faces == FaceIds(geometry)

\* the members of the recorder, as a set
AffectedFaceSet == {affected.faces[i] : i \in 1..Len(affected.faces)}
VisitedSet == {f \in Faces : isFloodFill[f] # 0}

\* what a handler saw when it was entered: _state, _usingViewingTexture and
\* (for a stroke sample) the face its ray hit, -1 for none
Event(op, seed) ==
  [op |-> op, from |-> state, wasViewing |-> usingViewingTexture, seed |-> seed]

\* ---------------------------------------------------------- construction
\* initializeViewingTexture: every viewing UV is (0.5, 0.5)
InitialViewingUv == [x |-> <<1, 2>>, y |-> <<1, 2>>]

\* the state the Controls constructor leaves (new TextureManager,
\* applyViewingTexture, _usingViewingTexture = true, handleResize(), update())
\* for the mesh g and a canvas of the size given, with the adjacency loops
\* k rounds in and a recorded so far
ConstructedWith(g, a, k, size) ==
  /\ geometry = g
  /\ nAdjacentFaces = a.nadj
  /\ AdjacentFacesList = a.adj
  /\ pairsDone = k
  /\ state = "Idle"
  /\ usingViewingTexture = TRUE
  /\ meshMaterial = "viewing"
  /\ meshUvs = "viewing"
  /\ affected = NewRecorder(geometry)
  /\ isFloodFill = [f \in FaceIds(geometry) |-> 0]
  /\ viewingTextureUvs = [f \in FaceIds(geometry) |->
                            <<InitialViewingUv, InitialViewingUv, InitialViewingUv>>]
  /\ viewingPatch = [f \in FaceIds(geometry) |-> 0]
  /\ drawingTextureUvs = [f \in FaceIds(geometry) |->
                            <<[x |-> 0, y |-> 0], [x |-> 0, y |-> 0], [x |-> 0, y |-> 0]>>]
  /\ drawingCanvas = <<300, 150>>
  /\ drawingSnapshot = [rendered |-> FALSE]
  /\ canvas = size
  /\ camera = [view |-> "front", zoom |-> 1, ratio |-> AspectRatio(canvas)]
  /\ rotateEnd = "none"
  /\ zoomStart = 0
  /\ brush = [radius |-> Undefined, stroking |-> FALSE]
  /\ listening = FALSE
  /\ nPatches = 0
  /\ patchCanvases = <<>>
  /\ call = [op |-> "none"]
  /\ lastEvent = [op |-> "constructor", from |-> "Idle", wasViewing |-> TRUE,
                  seed |-> 0 - 1]

Constructed(g, a, k) == \E size \in CanvasSizes : ConstructedWith(g, a, k, size)

Init == Constructed(RoofMesh, BuildAdjacency(RoofMesh), Len(FacePairs(RoofMesh)))

\* the TextureManager constructor about to enter its i, j loops, on any of
\* the sheet meshes
InitConstruct == \E g \in SheetMeshes : Constructed(g, EmptyAdjacency(g), 0)

\* one round of the i, j loops of the TextureManager constructor
ConstructorStep ==
  /\ pairsDone < Len(FacePairs(geometry))
  /\ LET p == FacePairs(geometry)[pairsDone + 1]
         a == ConstructorPair(geometry,
                              [nadj |-> nAdjacentFaces, adj |-> AdjacentFacesList],
                              p[1], p[2])
     IN  /\ nAdjacentFaces' = a.nadj
         /\ AdjacentFacesList' = a.adj
  /\ pairsDone' = pairsDone + 1
  /\ UNCHANGED <<geometry, state, usingViewingTexture, meshMaterial, meshUvs, affected,
                 isFloodFill, viewingTextureUvs, viewingPatch, drawingTextureUvs,
                 drawingCanvas, drawingSnapshot, canvas, camera, rotateEnd, zoomStart,
                 brush, listening, nPatches, patchCanvases, call, lastEvent>>

\* ----------------------------------------------------------- TextureManager
\* a canvas made by document.createElement is a new object: patch canvases
\* are numbered in the order of their creation
NewPatchCanvas == nPatches + 1

\* may a handler that calls _useViewingTexture run: it may unless it would
\* create one patch canvas more than MaxPatches
WithinPatchBudget == usingViewingTexture \/ affected.n = 0 \/ nPatches < MaxPatches

RECURSIVE SeqMax(_)
SeqMax(s) == IF Len(s) = 1 THEN s[1] ELSE Max2(s[1], SeqMax(Tail(s)))
RECURSIVE SeqMin(_)
SeqMin(s) == IF Len(s) = 1 THEN s[1] ELSE Min2(s[1], SeqMin(Tail(s)))

\* the u (c = "x") or v (c = "y") numerators of all affected faces, in
\* forEach order
AffectedCoords(c) ==
  LET RECURSIVE Collect(_)
      Collect(i) ==
        IF i > Len(affected.faces) THEN <<>>
        ELSE LET d == drawingTextureUvs[affected.faces[i]]
             IN  (IF c = "x" THEN <<d[1].x, d[2].x, d[3].x>> ELSE <<d[1].y, d[2].y, d[3].y>>)
                 \o Collect(i + 1)
  IN  Collect(1)

\* bounds that take the top of the rectangle from vMin without the flip
PatchBoundsNoFlip ==
  LET uMax == SeqMax(AffectedCoords("x"))
      uMin == SeqMin(AffectedCoords("x"))
      vMax == SeqMax(AffectedCoords("y"))
      vMin == SeqMin(AffectedCoords("y"))
  IN  [uMin |-> uMin, vMin |-> vMin,
       width |-> ((uMax - uMin) * drawingCanvas[1]) \div UVDen,
       height |-> ((vMax - vMin) * drawingCanvas[2]) \div UVDen,
       xMin |-> (uMin * drawingCanvas[1]) \div UVDen,
       yMin |-> (vMin * drawingCanvas[2]) \div UVDen]

\* prepareViewingTexture, lines 432-460: the bounds and the patch canvas
PatchBounds ==
  LET uMax == SeqMax(AffectedCoords("x"))
      uMin == SeqMin(AffectedCoords("x"))
      vMax == SeqMax(AffectedCoords("y"))
      vMin == SeqMin(AffectedCoords("y"))
      \* xMax - xMin and yMax - yMin, truncated by the canvas size setters
      width == ((uMax - uMin) * drawingCanvas[1]) \div UVDen
      height == ((vMax - vMin) * drawingCanvas[2]) \div UVDen
  IN  [uMin |-> uMin, vMin |-> vMin, width |-> width, height |-> height,
       xMin |-> (uMin * drawingCanvas[1]) \div UVDen,
       yMin |-> ((UVDen - vMax) * drawingCanvas[2]) \div UVDen]

\* lines 453-460: the patch canvas and what drawImage copies into it, the
\* rectangle of the drawing canvas with the corner (sx, sy) and the canvas's size
PatchCanvas(pb) == [sx |-> pb.xMin, sy |-> pb.yMin, width |-> pb.width, height |-> pb.height]

RECURSIVE Gcd(_, _)
Gcd(a, b) == IF b = 0 THEN a ELSE Gcd(b, a % b)

\* the number n / d (n >= 0, d >= 0) in lowest terms; <<1, 0>> is Infinity
\* and <<0, 0>> is NaN
Fraction(n, d) ==
  IF d = 0 THEN (IF n = 0 THEN <<0, 0>> ELSE <<1, 0>>)
  ELSE <<n \div Gcd(n, d), d \div Gcd(n, d)>>

\* a remapping that does not subtract the minima
RemappedUvsFromOrigin(faceIndex, pb) ==
  [j \in 1..3 |->
     [x |-> Fraction(drawingTextureUvs[faceIndex][j].x * drawingCanvas[1], UVDen * pb.width),
      y |-> Fraction(drawingTextureUvs[faceIndex][j].y * drawingCanvas[2], UVDen * pb.height)]]

\* lines 469-476: the viewing UVs written for one affected face
RemappedUvs(faceIndex, pb) ==
  [j \in 1..3 |->
     [x |-> Fraction((drawingTextureUvs[faceIndex][j].x - pb.uMin) * drawingCanvas[1],
                     UVDen * pb.width),
      y |-> Fraction((drawingTextureUvs[faceIndex][j].y - pb.vMin) * drawingCanvas[2],
                     UVDen * pb.height)]]

\* a reconciliation that rewrites the viewing UVs of every face
PrepareViewingTextureAllFaces ==
  IF affected.n > 0
  THEN LET pb == PatchBounds
           patchCanvas == NewPatchCanvas
       IN  /\ viewingPatch' = [f \in Faces |-> patchCanvas]
           /\ viewingTextureUvs' = [f \in Faces |-> RemappedUvs(f, pb)]
           /\ affected' = RecorderReset(affected)
           /\ nPatches' = nPatches + 1
           /\ patchCanvases' = Append(patchCanvases, PatchCanvas(pb))
  ELSE UNCHANGED <<viewingPatch, viewingTextureUvs, affected, nPatches, patchCanvases>>

PrepareViewingTexture ==
  IF affected.n > 0
  THEN LET pb == PatchBounds
           patchCanvas == NewPatchCanvas
       IN  /\ viewingPatch' = [f \in Faces |->
                                 IF f \in AffectedFaceSet THEN patchCanvas ELSE viewingPatch[f]]
           /\ viewingTextureUvs' = [f \in Faces |->
                                      IF f \in AffectedFaceSet THEN RemappedUvs(f, pb)
                                      ELSE viewingTextureUvs[f]]
           /\ affected' = RecorderReset(affected)
           /\ nPatches' = nPatches + 1
           /\ patchCanvases' = Append(patchCanvases, PatchCanvas(pb))
  ELSE UNCHANGED <<viewingPatch, viewingTextureUvs, affected, nPatches, patchCanvases>>

\* a slip that swaps the material but leaves the drawing UV array in place
ApplyViewingTextureMaterialOnly == meshMaterial' = "viewing" /\ meshUvs' = meshUvs

ApplyViewingTexture == meshMaterial' = "viewing" /\ meshUvs' = "viewing"

ApplyDrawingTexture == meshMaterial' = "drawing" /\ meshUvs' = "drawing"

\* prepareDrawingTexture: render the scene (viewing material, the UV array
\* now on the geometry) from the camera into the drawing canvas, then
\* project every vertex and copy the result to each face's corners
PrepareDrawingTexture ==
  /\ drawingCanvas' = canvas
  /\ drawingSnapshot' = [rendered |-> TRUE, camera |-> camera, uvs |-> meshUvs]
  /\ drawingTextureUvs' = [f \in Faces |-> ProjectFaceUvs(geometry, camera, f)]

\* an onStrokePainted that keeps the marks of the earlier calls
OnStrokePaintedKeepVisited(uvs, size, canvasPos, radius, seed) ==
  IF seed >= 0
  THEN LET env == [g |-> geometry, adj |-> AdjacentFacesList, nadj |-> nAdjacentFaces,
                   uvs |-> uvs, size |-> size, cam |-> camera]
           st == AddRecursive([ff |-> isFloodFill, rec |-> affected], env, seed,
                              canvasPos, radius)
       IN  /\ isFloodFill' = st.ff
           /\ affected' = st.rec
  ELSE UNCHANGED <<isFloodFill, affected>>

\* an onStrokePainted that empties the recorder before the fill
OnStrokePaintedFreshSet(uvs, size, canvasPos, radius, seed) ==
  IF seed >= 0
  THEN LET env == [g |-> geometry, adj |-> AdjacentFacesList, nadj |-> nAdjacentFaces,
                   uvs |-> uvs, size |-> size, cam |-> camera]
           cleared == [f \in Faces |-> 0]
           st == AddRecursive([ff |-> cleared, rec |-> RecorderReset(affected)], env, seed,
                              canvasPos, radius)
       IN  /\ isFloodFill' = st.ff
           /\ affected' = st.rec
  ELSE UNCHANGED <<isFloodFill, affected>>

\* onStrokePainted(canvasPos, radius), run with the drawing UVs and drawing
\* canvas the handler has at that point; seed is intersections[0]'s face
OnStrokePainted(uvs, size, canvasPos, radius, seed) ==
  IF seed >= 0
  THEN LET env == [g |-> geometry, adj |-> AdjacentFacesList, nadj |-> nAdjacentFaces,
                   uvs |-> uvs, size |-> size, cam |-> camera]
           cleared == [f \in Faces |-> 0]
       IN  \E st \in {AddRecursive([ff |-> cleared, rec |-> affected], env, seed, canvasPos,
                                    radius)} :
             /\ isFloodFill' = st.ff
             /\ affected' = st.rec
  ELSE UNCHANGED <<isFloodFill, affected>>

\* ---------------------------------------------------------------- Controls
\* _useViewingTexture without the 'already using' test
UseViewingTextureUnguarded ==
  /\ PrepareViewingTexture
  /\ ApplyViewingTexture
  /\ usingViewingTexture' = TRUE

UseViewingTexture ==
  IF usingViewingTexture
  THEN UNCHANGED <<usingViewingTexture, meshMaterial, meshUvs, viewingTextureUvs,
                   viewingPatch, affected, nPatches, patchCanvases>>
  ELSE /\ PrepareViewingTexture
       /\ ApplyViewingTexture
       /\ usingViewingTexture' = TRUE

\* _useDrawingTexture without the 'already using' test
UseDrawingTextureUnguarded ==
  /\ PrepareDrawingTexture
  /\ ApplyDrawingTexture
  /\ usingViewingTexture' = FALSE

UseDrawingTexture ==
  IF ~usingViewingTexture
  THEN UNCHANGED <<usingViewingTexture, meshMaterial, meshUvs, drawingTextureUvs,
                   drawingCanvas, drawingSnapshot>>
  ELSE /\ PrepareDrawingTexture
       /\ ApplyDrawingTexture
       /\ usingViewingTexture' = FALSE

\* CameraControlsBase.updateCamera: rotateCamera and zoomCamera apply what
\* the mouse handlers left pending
UpdateCamera ==
  /\ camera' = [camera EXCEPT
                  !.view = IF rotateEnd = "none" THEN @ ELSE rotateEnd,
                  !.zoom = @ + zoomStart]
  /\ rotateEnd' = "none"
  /\ zoomStart' = 0

\* the brush made by _mousedown when the host has set _brushSize to
\* brushSize (_brushType is one of "brush1" .. "brush9", whose constructors
\* all take _pencilSize from _brushSize)
NewBrush(brushSize) == [radius |-> brushSize, stroking |-> FALSE]

\* a _mousedown that starts a camera drag out of any state but Idle
MouseDownRestartsDrag ==
  /\ state # "Idle"
  /\ WithinPatchBudget
  /\ state' = "View"
  /\ UseViewingTexture
  /\ listening' = TRUE
  /\ lastEvent' = Event("mousedownShift", 0 - 1)
  /\ UNCHANGED <<meshVars, isFloodFill, drawingVars, canvas, cameraVars, brush, call>>

\* Controls._mousedown while a drag or a stroke is in progress
MouseDownIgnored ==
  /\ state # "Idle"
  /\ lastEvent' = Event("mousedownIgnored", 0 - 1)
  /\ UNCHANGED <<meshVars, state, viewingVars, affected, isFloodFill, drawingVars, canvas,
                 cameraVars, brush, listening, nPatches, patchCanvases, call>>

\* Controls._mousedown with shift held: start a camera drag
MouseDownView ==
  /\ state = "Idle"
  /\ WithinPatchBudget
  /\ state' = "View"
  /\ UseViewingTexture
  /\ listening' = TRUE
  /\ lastEvent' = Event("mousedownShift", 0 - 1)
  /\ UNCHANGED <<meshVars, isFloodFill, drawingVars, canvas, cameraVars, brush, call>>

\* a _mousedown that starts the stroke only when the pointer ray hits the mesh
MouseDownDrawIdleOnMiss(pos, brushSize) ==
  /\ state = "Idle"
  /\ \E seed \in {CastRayFromMouse(geometry, camera, drawingCanvas, pos)} :
         IF seed >= 0
         THEN /\ state' = "Draw"
              /\ UseDrawingTexture
              /\ brush' = [NewBrush(brushSize) EXCEPT !.stroking = TRUE]
              /\ OnStrokePainted(drawingTextureUvs', drawingCanvas', pos, brush'.radius, seed)
              /\ listening' = TRUE
              /\ lastEvent' = Event("mousedown", seed)
         ELSE /\ lastEvent' = Event("mousedown", seed)
              /\ UNCHANGED <<state, usingViewingTexture, meshMaterial, meshUvs, drawingVars,
                             brush, affected, isFloodFill, listening>>
  /\ UNCHANGED <<meshVars, viewingTextureUvs, viewingPatch, canvas, cameraVars, nPatches,
                 patchCanvases, call>>

\* a _mousedown that empties the AffectedFaceSet before its flood fill
MouseDownDrawFreshSet(pos, brushSize) ==
  /\ state = "Idle"
  /\ state' = "Draw"
  /\ UseDrawingTexture
  /\ brush' = [NewBrush(brushSize) EXCEPT !.stroking = TRUE]
  /\ \E seed \in {CastRayFromMouse(geometry, camera, drawingCanvas', pos)} :
         /\ OnStrokePaintedFreshSet(drawingTextureUvs', drawingCanvas', pos, brush'.radius, seed)
         /\ lastEvent' = Event("mousedown", seed)
  /\ listening' = TRUE
  /\ UNCHANGED <<meshVars, viewingTextureUvs, viewingPatch, canvas, cameraVars, nPatches,
                 patchCanvases, call>>

\* prepareDrawingTexture, line 497: drawImage throws InvalidStateError when
\* its source, the renderer's canvas, has no pixels
DrawImageThrows == usingViewingTexture /\ ZeroSized(canvas)

\* Controls._mousedown without shift: start a stroke.  When drawImage throws
\* the handler ends there, inside _useDrawingTexture: _state is Draw already
\* and the drawing canvas has been resized (and so cleared); nothing after
\* line 497 has run.
MouseDownDraw(pos, brushSize) ==
  /\ state = "Idle"
  /\ state' = "Draw"
  /\ IF DrawImageThrows
     THEN /\ drawingCanvas' = canvas
          /\ drawingSnapshot' = [rendered |-> FALSE]
          /\ lastEvent' = Event("mousedownThrew", 0 - 1)
          /\ UNCHANGED <<usingViewingTexture, meshMaterial, meshUvs, drawingTextureUvs, brush,
                         affected, isFloodFill, listening>>
     ELSE /\ UseDrawingTexture
          /\ brush' = [NewBrush(brushSize) EXCEPT !.stroking = TRUE]
          /\ \E seed \in {CastRayFromMouse(geometry, camera, drawingCanvas', pos)} :
                 /\ OnStrokePainted(drawingTextureUvs', drawingCanvas', pos, brush'.radius, seed)
                 /\ lastEvent' = Event("mousedown", seed)
          /\ listening' = TRUE
  /\ UNCHANGED <<meshVars, viewingTextureUvs, viewingPatch, canvas, cameraVars, nPatches,
                 patchCanvases, call>>

\* Controls._mousemove during a camera drag: the trackball's new end point
MouseMoveView(view) ==
  /\ listening
  /\ state = "View"
  /\ rotateEnd' = IF view = camera.view THEN "none" ELSE view
  /\ UNCHANGED <<lastEvent, meshVars, state, viewingVars, affected, isFloodFill, drawingVars, canvas,
                 camera, zoomStart, brush, listening, nPatches, patchCanvases, call>>

\* a stroke _mousemove whose flood fill keeps the marks of earlier samples
MouseMoveDrawKeepVisited(pos) ==
  /\ listening
  /\ state = "Draw"
  /\ \E seed \in {CastRayFromMouse(geometry, camera, drawingCanvas, pos)} :
         /\ OnStrokePaintedKeepVisited(drawingTextureUvs, drawingCanvas, pos, brush.radius, seed)
         /\ lastEvent' = Event("mousemove", seed)
  /\ UNCHANGED <<meshVars, state, viewingVars, drawingVars, canvas, cameraVars, brush,
                 listening, nPatches, patchCanvases, call>>

\* a stroke _mousemove that does not look at _state
MouseMoveDrawAnyState(pos) ==
  /\ listening
  /\ \E seed \in {CastRayFromMouse(geometry, camera, drawingCanvas, pos)} :
         /\ OnStrokePainted(drawingTextureUvs, drawingCanvas, pos, brush.radius, seed)
         /\ lastEvent' = Event("mousemove", seed)
  /\ UNCHANGED <<meshVars, state, viewingVars, drawingVars, canvas, cameraVars, brush,
                 listening, nPatches, patchCanvases, call>>

\* Controls._mousemove during a stroke
MouseMoveDraw(pos) ==
  /\ listening
  /\ state = "Draw"
  /\ \E seed \in {CastRayFromMouse(geometry, camera, drawingCanvas, pos)} :
         /\ OnStrokePainted(drawingTextureUvs, drawingCanvas, pos, brush.radius, seed)
         /\ lastEvent' = Event("mousemove", seed)
  /\ UNCHANGED <<meshVars, state, viewingVars, drawingVars, canvas, cameraVars, brush,
                 listening, nPatches, patchCanvases, call>>

\* a _mouseup that also reconciles
MouseUpReconciling ==
  /\ listening
  /\ brush' = [brush EXCEPT !.stroking = FALSE]
  /\ UpdateCamera
  /\ UseViewingTexture
  /\ state' = "Idle"
  /\ listening' = FALSE
  /\ lastEvent' = Event("mouseup", 0 - 1)
  /\ UNCHANGED <<meshVars, isFloodFill, drawingVars, canvas, call>>

\* Controls._mouseup: finishStroke, update(), back to Idle
MouseUp ==
  /\ listening
  /\ brush' = [brush EXCEPT !.stroking = FALSE]
  /\ UpdateCamera
  /\ state' = "Idle"
  /\ listening' = FALSE
  /\ lastEvent' = Event("mouseup", 0 - 1)
  /\ UNCHANGED <<meshVars, viewingVars, affected, isFloodFill, drawingVars, canvas,
                 nPatches, patchCanvases, call>>

\* Controls._mousewheel during a stroke or without shift
MouseWheelIgnored(shift) ==
  /\ state = "Draw" \/ ~shift
  /\ UNCHANGED <<lastEvent, meshVars, state, viewingVars, affected, isFloodFill, drawingVars, canvas,
                 cameraVars, brush, listening, nPatches, patchCanvases, call>>

\* Controls._mousewheel with shift: reconcile, then leave the zoom pending
MouseWheel(delta) ==
  /\ state # "Draw"
  /\ camera.zoom + zoomStart + delta \in ZoomLevels
  /\ WithinPatchBudget
  /\ UseViewingTexture
  /\ zoomStart' = zoomStart + delta
  /\ UNCHANGED <<lastEvent, meshVars, state, isFloodFill, drawingVars, canvas, camera,
                 rotateEnd, brush, listening, call>>

\* Controls.handleResize after the host gave the canvas the size 'size'
HandleResize(size) ==
  /\ canvas' = size
  /\ camera' = [camera EXCEPT !.ratio = AspectRatio(size)]
  /\ WithinPatchBudget
  /\ UseViewingTexture
  /\ UNCHANGED <<lastEvent, meshVars, state, isFloodFill, drawingVars, rotateEnd, zoomStart,
                 brush, listening, call>>

\* Controls.update, the host's render frame
Update ==
  /\ UpdateCamera
  /\ UNCHANGED <<lastEvent, meshVars, state, viewingVars, affected, isFloodFill, drawingVars, canvas,
                 brush, listening, nPatches, patchCanvases, call>>

\* a pointer-down that starts a stroke, and a pointer-move that continues one
StrokeStart == \E pos \in PointerPositions, brushSize \in BrushSizes : MouseDownDraw(pos, brushSize)
StrokeContinue == \E pos \in PointerPositions : MouseMoveDraw(pos)

Next ==
  \/ MouseDownIgnored
  \/ MouseDownView
  \/ StrokeStart
  \/ \E view \in Views : MouseMoveView(view)
  \/ StrokeContinue
  \/ MouseUp
  \/ \E shift \in BOOLEAN : MouseWheelIgnored(shift)
  \/ \E delta \in {0 - 1, 1} : MouseWheel(delta)
  \/ \E size \in CanvasSizes : HandleResize(size)
  \/ Update

Spec == Init /\ [][Next]_vars

\* the construction of the adjacency graph alone
NextConstruct == ConstructorStep

SpecConstruct == InitConstruct /\ [][NextConstruct]_vars

\* ------------------------------------------------------- the cube scene
\* pointer positions and brush sizes of the cube scene: the middle of the
\* canvas and a point in either triangle of the side facing the camera
CubePointerPositions == {[x |-> 10, y |-> 10], [x |-> 9, y |-> 10], [x |-> 12, y |-> 11]}
CubeBrushSizes == {0, 2, 8}

\* the Controls constructor on the cube, about to enter the adjacency loops
InitCube == ConstructedWith(CubeMesh, EmptyAdjacency(CubeMesh), 0, <<20, 20>>)

\* the constructor has returned: events are delivered only after it
ConstructorDone == pairsDone = Len(FacePairs(geometry))

CubeStrokeStart ==
  \E pos \in CubePointerPositions, brushSize \in CubeBrushSizes : MouseDownDraw(pos, brushSize)
CubeStrokeContinue == \E pos \in CubePointerPositions : MouseMoveDraw(pos)

NextCube ==
  \/ ConstructorStep
  \/ ConstructorDone /\ MouseDownIgnored
  \/ ConstructorDone /\ MouseDownView
  \/ ConstructorDone /\ CubeStrokeStart
  \/ ConstructorDone /\ \E view \in Views : MouseMoveView(view)
  \/ ConstructorDone /\ CubeStrokeContinue
  \/ ConstructorDone /\ MouseUp

SpecCube == InitCube /\ [][NextCube]_vars

\* ------------------------------------------------------ the sheet scene
\* the sheet on a canvas of 100 x 100 pixels; the pointer positions are one
\* inside each face, one on the rectangle's diagonal and one off the mesh
PatchPointerPositions ==
  {[x |-> 25, y |-> 55], [x |-> 35, y |-> 65], [x |-> 45, y |-> 60], [x |-> 30, y |-> 60],
   [x |-> 80, y |-> 20]}
PatchBrushSizes == {0, 10, 40}

InitPatch ==
  ConstructedWith(PatchMesh, BuildAdjacency(PatchMesh), Len(FacePairs(PatchMesh)), <<100, 100>>)

PatchStrokeStart ==
  \E pos \in PatchPointerPositions, brushSize \in PatchBrushSizes : MouseDownDraw(pos, brushSize)
PatchStrokeContinue == \E pos \in PatchPointerPositions : MouseMoveDraw(pos)

NextPatch ==
  \/ MouseDownIgnored
  \/ MouseDownView
  \/ PatchStrokeStart
  \/ PatchStrokeContinue
  \/ MouseUp

SpecPatch == InitPatch /\ [][NextPatch]_vars

\* ------------------------------------------- the roof on a resized canvas
\* the sizes the host gives the canvas before it calls handleResize
ResizedCanvasSizes == {<<20, 20>>, <<0, 20>>}

NextResize ==
  \/ MouseDownIgnored
  \/ MouseDownView
  \/ StrokeStart
  \/ StrokeContinue
  \/ MouseUp
  \/ \E size \in ResizedCanvasSizes : HandleResize(size)

SpecResize == Init /\ [][NextResize]_vars

\* canvas sizes on which the bounding box of a face is not a whole number
\* of pixels wide or high
UnevenCanvasSizes == {<<26, 26>>, <<30, 14>>}

\* the pointer handlers and handleResize on such canvases
NextUneven ==
  \/ MouseDownIgnored
  \/ MouseDownView
  \/ StrokeStart
  \/ StrokeContinue
  \/ MouseUp
  \/ \E size \in UnevenCanvasSizes : HandleResize(size)

SpecUneven == Init /\ [][NextUneven]_vars

\* ------------------------------------------------- the pointer handlers
\* Controls._mousemove called while _state is Idle: it returns at once
MouseMoveIdle ==
  /\ state = "Idle"
  /\ lastEvent' = Event("mousemoveIdle", 0 - 1)
  /\ UNCHANGED <<meshVars, state, viewingVars, affected, isFloodFill, drawingVars, canvas,
                 cameraVars, brush, listening, nPatches, patchCanvases, call>>

\* the three pointer handlers alone, _mousemove in every state
NextPointer ==
  \/ MouseDownIgnored
  \/ MouseDownView
  \/ StrokeStart
  \/ \E view \in Views : MouseMoveView(view)
  \/ StrokeContinue
  \/ MouseMoveIdle
  \/ MouseUp

SpecPointer == Init /\ [][NextPointer]_vars

\* --------------------------------------- direct calls of core operations
\* at most MaxRecorded entries are in the recorder when add is called
MaxRecorded == 3

\* the face indices handed to the calls: the faces of the roof, -1 and two
\* indices past the last face
FaceIndexInputs == (0 - 1)..(Cardinality(FaceIds(RoofMesh)) + 1)

\* what a call leaves alone
callFrame == <<geometry, nAdjacentFaces, AdjacentFacesList, pairsDone, state,
               usingViewingTexture, meshMaterial, meshUvs, viewingTextureUvs, viewingPatch,
               drawingTextureUvs, drawingCanvas, drawingSnapshot, canvas, camera, rotateEnd,
               zoomStart, brush, listening, nPatches, patchCanvases, lastEvent>>

\* _affectedFaces.add(faceIndex)
CallAdd(faceIndex) ==
  /\ affected.n < MaxRecorded
  /\ affected' = RecorderAdd(affected, faceIndex)
  /\ call' = [op |-> "add", faceIndex |-> faceIndex, result |-> "returned"]
  /\ UNCHANGED <<callFrame, isFloodFill>>

\* _affectedFaces.contains(faceIndex)
CallContains(faceIndex) ==
  /\ call' = [op |-> "contains", faceIndex |-> faceIndex,
              result |-> IF RecorderContains(affected, faceIndex) THEN "true" ELSE "false"]
  /\ UNCHANGED <<callFrame, affected, isFloodFill>>

\* _affectedFaces.reset()
CallReset ==
  /\ affected' = RecorderReset(affected)
  /\ call' = [op |-> "reset", faceIndex |-> 0 - 1, result |-> "returned"]
  /\ UNCHANGED <<callFrame, isFloodFill>>

\* _add_recursive(faceIndex, center, radius) called with a seed: for an
\* index past the last face !_isFloodFill[faceIndex] is true and line 613
\* reads a property of the undefined _drawingTextureUvs[faceIndex], which
\* throws TypeError
CallAddRecursive(faceIndex, center, radius) ==
  /\ IF faceIndex >= 0 /\ faceIndex \notin Faces
     THEN /\ call' = [op |-> "_add_recursive", faceIndex |-> faceIndex, result |-> "TypeError"]
          /\ UNCHANGED <<affected, isFloodFill>>
     ELSE LET env == [g |-> geometry, adj |-> AdjacentFacesList, nadj |-> nAdjacentFaces,
                      uvs |-> drawingTextureUvs, size |-> drawingCanvas, cam |-> camera]
              st == AddRecursive([ff |-> isFloodFill, rec |-> affected], env, faceIndex,
                                 center, radius)
          IN  /\ isFloodFill' = st.ff
              /\ affected' = st.rec
              /\ call' = [op |-> "_add_recursive", faceIndex |-> faceIndex,
                          result |-> "returned"]
  /\ UNCHANGED callFrame

NextRecorder ==
  \/ \E faceIndex \in FaceIndexInputs \cap Nat : CallAdd(faceIndex)
  \/ \E faceIndex \in FaceIndexInputs : CallContains(faceIndex)
  \/ CallReset
  \/ \E faceIndex \in FaceIndexInputs, pos \in PointerPositions, r \in BrushSizes :
       CallAddRecursive(faceIndex, pos, r)

SpecRecorder == Init /\ [][NextRecorder]_vars

\* the corners and the points _pointInTriangle is called with: triangles
\* with area, with three corners on a line and with corners that coincide
TrianglePoints == {[x |-> 0, y |-> 0], [x |-> 4, y |-> 0], [x |-> 0, y |-> 4], [x |-> 2, y |-> 2]}
ProbePoints == {[x |-> 1, y |-> 1], [x |-> 2, y |-> 2], [x |-> 6, y |-> 6]}

\* _pointInTriangle(point, t0, t1, t2)
CallPointInTriangle(point, t0, t1, t2) ==
  /\ call' = [op |-> "_pointInTriangle", point |-> point, t0 |-> t0, t1 |-> t1, t2 |-> t2,
              result |-> IF PointInTriangle(point, t0, t1, t2) THEN "true" ELSE "false"]
  /\ UNCHANGED <<callFrame, affected, isFloodFill>>

\* calls of _pointInTriangle, and of _add_recursive on the faces of the roof
\* as the constructor leaves them (initializeDrawingTexture gives every face
\* three drawing UVs (0, 0))
NextGeometry ==
  \/ \E point \in ProbePoints, t0 \in TrianglePoints, t1 \in TrianglePoints,
        t2 \in TrianglePoints : CallPointInTriangle(point, t0, t1, t2)
  \/ \E faceIndex \in Faces, pos \in PointerPositions, r \in BrushSizes :
       CallAddRecursive(faceIndex, pos, r)

SpecGeometry == Init /\ [][NextGeometry]_vars

\* ------------------------------------------------ the flood fill in steps
\* a pyramid seen from above its apex (vertex 0): its four sides are
\* neighbours in a ring
PyramidMesh ==
  [vertices |-> ZeroBased(<< <<0, 0, 2>>, <<2, 2, 0>>, <<-2, 2, 0>>, <<-2, -2, 0>>,
                             <<2, -2, 0>> >>),
   faces |-> ZeroBased(<< MkFace(0, 1, 2, <<0, 1, 1>>), MkFace(0, 2, 3, <<-1, 0, 1>>),
                          MkFace(0, 3, 4, <<0, -1, 1>>), MkFace(0, 4, 1, <<1, 0, 1>>) >>)]

PyramidPointerPositions ==
  {[x |-> 11, y |-> 9], [x |-> 9, y |-> 12], [x |-> 13, y |-> 11], [x |-> 7, y |-> 10]}

InitFill ==
  ConstructedWith(PyramidMesh, BuildAdjacency(PyramidMesh), Len(FacePairs(PyramidMesh)),
                  <<20, 20>>)

\* a flood fill is under way: call.stack holds the activations of
\* _add_recursive, the innermost last, each with its faceIndex and its place
\* (i = -1 at the entry of the function, otherwise the loop variable)
FillRunning == call.op = "onStrokePainted" /\ call.stack # <<>>

\* an _add_recursive that forgets to mark the face
MarkVisitedNot(ff, faceIndex) == ff

\* line 631: this._isFloodFill[faceIndex] = 1
MarkVisited(ff, faceIndex) == [ff EXCEPT ![faceIndex] = 1]

\* Controls._useDrawingTexture, as _mousedown calls it before the stroke
FillPrepare ==
  /\ ~FillRunning
  /\ usingViewingTexture
  /\ UseDrawingTexture
  /\ UNCHANGED <<meshVars, state, viewingTextureUvs, viewingPatch, affected, isFloodFill,
                 canvas, cameraVars, brush, listening, nPatches, patchCanvases, call,
                 lastEvent>>

\* onStrokePainted(canvasPos, radius) up to its call of _add_recursive
FillBegin(canvasPos, radius) ==
  /\ ~FillRunning
  /\ ~usingViewingTexture
  /\ \E seed \in {CastRayFromMouse(geometry, camera, drawingCanvas, canvasPos)} :
       IF seed >= 0
       THEN /\ isFloodFill' = [f \in Faces |-> 0]
            /\ call' = [op |-> "onStrokePainted", center |-> canvasPos, radius |-> radius,
                        stack |-> <<[faceIndex |-> seed, i |-> 0 - 1]>>, expanded |-> 0]
       ELSE /\ call' = [op |-> "onStrokePainted", center |-> canvasPos, radius |-> radius,
                        stack |-> <<>>, expanded |-> 0]
            /\ UNCHANGED isFloodFill
  /\ UNCHANGED <<callFrame, affected>>

\* one step of the innermost activation of _add_recursive: the test at its
\* entry with the marking and the add, one round of its loop, or its return
FillStep ==
  /\ FillRunning
  /\ LET depth == Len(call.stack)
         top == call.stack[depth]
         rest == SubSeq(call.stack, 1, depth - 1)
         faceIndex == top.faceIndex
     IN  IF top.i < 0
         THEN IF /\ faceIndex >= 0
                 /\ isFloodFill[faceIndex] = 0
                 /\ FaceIntersectsCircle(drawingTextureUvs[faceIndex], drawingCanvas,
                                         call.center, call.radius)
              THEN /\ isFloodFill' = MarkVisited(isFloodFill, faceIndex)
                   /\ affected' = RecorderAdd(affected, faceIndex)
                   /\ call' = [call EXCEPT !.stack = Append(rest, [top EXCEPT !.i = 0]),
                                           !.expanded = @ + 1]
              ELSE /\ call' = [call EXCEPT !.stack = rest]
                   /\ UNCHANGED <<isFloodFill, affected>>
         ELSE /\ UNCHANGED <<isFloodFill, affected>>
              /\ IF top.i < nAdjacentFaces[faceIndex]
                 THEN LET newfaceIndex == AdjacentFacesList[faceIndex][top.i + 1]
                          cameradirection == CameraPosition(camera)
                          next == Append(rest, [top EXCEPT !.i = @ + 1])
                      IN  call' = [call EXCEPT !.stack =
                                     IF Dot3(geometry.faces[newfaceIndex].normal,
                                             cameradirection) > 0
                                     THEN Append(next, [faceIndex |-> newfaceIndex, i |-> 0 - 1])
                                     ELSE next]
                 ELSE call' = [call EXCEPT !.stack = rest]
  /\ UNCHANGED callFrame

NextFill ==
  \/ FillPrepare
  \/ \E canvasPos \in PyramidPointerPositions, radius \in BrushSizes :
       FillBegin(canvasPos, radius)
  \/ FillStep

\* a call that has begun goes on: the handler runs to completion
SpecFill == InitFill /\ [][NextFill]_vars /\ WF_vars(FillStep)

\* =================================================================== claims
\* the faces listed after face f in the adjacency graph
Neighbors(f) == {AdjacentFacesList[f][i] : i \in 1..nAdjacentFaces[f]}

\* the faces of S reachable from the faces R through faces of S
RECURSIVE ReachWithin(_, _)
ReachWithin(R, S) ==
  LET more == R \cup {f \in S : \E r \in R : f \in Neighbors(r)}
  IN  IF more = R THEN R ELSE ReachWithin(more, S)

\* S is a connected subgraph of the adjacency graph that contains seed
ConnectedFrom(seed, S) == seed \in S /\ ReachWithin({seed}, S) = S

StrokeEnd == state = "Draw" /\ MouseUp

\* what every pointer-down that starts a stroke, and every pointer-move of
\* a stroke, records and leaves alone: a step that is not of this shape is
\* not such a step
DownFrame == state = "Idle" /\ lastEvent'.op \in {"mousedown", "mousedownThrew"}
MoveFrame ==
  /\ state = "Draw"
  /\ lastEvent'.op = "mousemove"
  /\ UNCHANGED <<state, camera, canvas, brush, drawingCanvas, usingViewingTexture>>

\* a pointer-down that starts a stroke; a pointer-move of a stroke
PointerDown == DownFrame /\ StrokeStart
PointerMove == MoveFrame /\ StrokeContinue
StrokeSample == PointerDown \/ PointerMove

\* ------------------------------------------------------------------- C1
\* C1, as the specification states it: right after the pointer-up handler
\* that ends a stroke the Controls state is Idle, the mesh is in Viewing mode
\* and the AffectedFaceSet is empty.
C1_StrokeEndReconciles ==
  [][StrokeEnd => /\ state' = "Idle"
                  /\ usingViewingTexture'
                  /\ meshMaterial' = "viewing"
                  /\ AffectedFaceSet' = {}]_vars

\* C1, as the code has it: the pointer-up handler that ends a stroke
\* finishes the brush and returns to Idle without reconciling; it leaves the
\* mode flag, the applied layout, the AffectedFaceSet and the viewing texture
\* as they were.
C1_StrokeEndDefersReconciliation ==
  [][StrokeEnd => /\ state' = "Idle"
                  /\ ~brush'.stroking
                  /\ ~listening'
                  /\ UNCHANGED <<usingViewingTexture, meshMaterial, meshUvs, affected,
                                 viewingTextureUvs, viewingPatch, nPatches>>]_vars

\* a stroke that painted faces has ended and the mesh is still in Drawing mode
C1_Witness ==
  /\ lastEvent.op = "mouseup"
  /\ lastEvent.from = "Draw"
  /\ state = "Idle"
  /\ ~usingViewingTexture
  /\ AffectedFaceSet # {}

\* ------------------------------------------------------------------- C2
\* C2, as the specification states it: after the flood fill of a stroke
\* sample the AffectedFaceSet is a connected subgraph of the adjacency graph
\* that contains the seed face.
C2_AffectedSetConnected ==
  [][(lastEvent'.seed >= 0 /\ StrokeSample)
       => ConnectedFrom(lastEvent'.seed, AffectedFaceSet')]_vars

\* C2, as the code has it: the faces one flood-fill call marks (the visited
\* bitmap it leaves) are none, or a connected subgraph of the adjacency graph
\* that contains the seed face, and all of them are in the AffectedFaceSet,
\* which also keeps the faces of earlier calls.
C2_FloodFillMarksConnectedSet ==
  [][(lastEvent'.seed >= 0 /\ StrokeSample)
       => /\ VisitedSet' = {} \/ ConnectedFrom(lastEvent'.seed, VisitedSet')
          /\ VisitedSet' \subseteq AffectedFaceSet'
          /\ AffectedFaceSet \subseteq AffectedFaceSet']_vars

\* a flood fill has spread from its seed to a neighbour
C2_Witness ==
  /\ lastEvent.op \in {"mousedown", "mousemove"}
  /\ lastEvent.seed >= 0
  /\ state = "Draw"
  /\ ~usingViewingTexture
  /\ lastEvent.seed \in VisitedSet
  /\ Cardinality(VisitedSet) >= 2

\* ------------------------------------------------------------------- C3
\* C3: no step (so no reconciliation) changes the viewing UVs or the patch
\* of a face outside the AffectedFaceSet, and a face that never got a patch
\* still has the initial viewing UVs (0.5, 0.5).
C3_ReconciliationTouchesAffectedOnly ==
  [][/\ \A f \in Faces : f \notin AffectedFaceSet
                           => /\ viewingTextureUvs'[f] = viewingTextureUvs[f]
                              /\ viewingPatch'[f] = viewingPatch[f]
     /\ \A f \in Faces : viewingPatch'[f] = 0
                           => viewingTextureUvs'[f] = <<InitialViewingUv, InitialViewingUv,
                                                        InitialViewingUv>>]_vars

\* a reconciliation has flushed some faces and left another untouched
C3_Witness ==
  /\ usingViewingTexture
  /\ AffectedFaceSet = {}
  /\ \E f, h \in Faces : viewingPatch[f] # 0 /\ viewingPatch[h] = 0

\* ------------------------------------------------------------------- C4
\* a pointer-down without shift in Idle whose ray misses the mesh
StrokeStartMiss == PointerDown /\ lastEvent'.seed < 0

\* C4, as the specification states it: a pointer-down without shift in Idle
\* whose ray misses the mesh leaves the Controls state Idle and adds no face
\* to the AffectedFaceSet.
C4_MissStaysIdle ==
  [][StrokeStartMiss => state' = "Idle" /\ affected' = affected]_vars

\* C4, as the code has it: a pointer-down without shift in Idle whose ray
\* misses the mesh still starts a stroke (the state becomes Draw, the mesh
\* is switched to Drawing mode, a brush is created and the move and up
\* listeners are registered), and it adds no face to the AffectedFaceSet and
\* marks none visited.
C4_MissStartsStrokeAddsNoFace ==
  [][StrokeStartMiss => /\ state' = "Draw"
                        /\ ~usingViewingTexture'
                        /\ meshMaterial' = "drawing"
                        /\ brush'.stroking
                        /\ listening'
                        /\ affected' = affected
                        /\ isFloodFill' = isFloodFill]_vars

\* a stroke has started off the mesh
C4_Witness ==
  /\ lastEvent.op = "mousedown"
  /\ lastEvent.seed < 0
  /\ state = "Draw"
  /\ brush.stroking

\* ------------------------------------------------------------------- C5
\* C5, as the specification states it: when a flood fill runs, the drawing
\* UVs of every face are the projection of the face's vertices under the
\* camera of that moment.
C5_DrawingUvsCurrentAtFloodFill ==
  [][(lastEvent'.seed >= 0 /\ StrokeSample)
       => drawingTextureUvs' = [f \in Faces |-> ProjectFaceUvs(geometry, camera', f)]]_vars

\* ------------------------------------------------------------------- C6
\* the stroke sample at pos, made with a brush of radius 0, whose ray hit
RadiusZeroSample(pos) ==
  /\ brush'.radius = 0
  /\ lastEvent'.seed >= 0
  /\ \/ MoveFrame /\ MouseMoveDraw(pos)
     \/ DownFrame /\ \E brushSize \in BrushSizes : MouseDownDraw(pos, brushSize)

\* is pos inside the triangle face f has on the drawing canvas after the step
InsideDrawn(f, pos) ==
  PointInTriangle(pos, UvToPixel(drawingTextureUvs'[f][1], drawingCanvas'),
                       UvToPixel(drawingTextureUvs'[f][2], drawingCanvas'),
                       UvToPixel(drawingTextureUvs'[f][3], drawingCanvas'))

\* C6, as the specification states it: a flood fill with radius 0 adds no
\* face to the AffectedFaceSet and marks no face visited.
C6_RadiusZeroAddsNothing ==
  [][\A pos \in PointerPositions :
       RadiusZeroSample(pos) => affected' = affected /\ VisitedSet' = {}]_vars

\* C6, as the code has it: with radius 0 no corner or edge test succeeds, but
\* the point-in-triangle test does not look at the radius: the seed is marked
\* and added exactly when the circle's centre lies in the seed's triangle on
\* the drawing canvas, and every face marked has the centre in its triangle.
C6_RadiusZeroMarksFacesHoldingCentre ==
  [][\A pos \in PointerPositions :
       RadiusZeroSample(pos)
         => /\ lastEvent'.seed \in VisitedSet' <=> InsideDrawn(lastEvent'.seed, pos)
            /\ \A f \in VisitedSet' : InsideDrawn(f, pos) /\ f \in AffectedFaceSet']_vars

\* a radius-0 sample has marked its seed
C6_Witness ==
  /\ lastEvent.op \in {"mousedown", "mousemove"}
  /\ lastEvent.seed \in VisitedSet
  /\ lastEvent.seed \in AffectedFaceSet
  /\ brush.radius = 0
  /\ state = "Draw"

\* ------------------------------------------------------------------- C7
\* C7: a pointer-down that starts a stroke while the mesh is already in
\* Drawing mode (the second _useDrawingTexture in a row) changes no drawing
\* UV, not the drawing canvas or its snapshot, not the mesh material or UV
\* array, and not the mode flag.
C7_SecondSwitchToDrawingDoesNothing ==
  [][(~usingViewingTexture /\ PointerDown)
       => UNCHANGED <<drawingTextureUvs, drawingCanvas, drawingSnapshot, meshMaterial,
                      meshUvs, usingViewingTexture>>]_vars

\* a stroke has started with the mesh already in Drawing mode, after the
\* camera moved away from the one of the snapshot
C7_Witness ==
  /\ lastEvent.op = "mousedown"
  /\ ~lastEvent.wasViewing
  /\ state = "Draw"
  /\ drawingSnapshot.rendered
  /\ drawingSnapshot.camera # camera

\* ------------------------------------------------------------------- C8
\* C8: a step taken while the mesh is in Viewing mode (so a second
\* _useViewingTexture in a row) or while the AffectedFaceSet is empty
\* changes no face's viewing UVs or patch and creates no patch canvas.
C8_ReconciliationIdempotent ==
  [][(usingViewingTexture \/ affected.n = 0)
       => UNCHANGED <<viewingTextureUvs, viewingPatch, nPatches>>]_vars

\* a camera drag has begun, so _useViewingTexture has run, with the mesh
\* already in Viewing mode and faces painted since the last reconciliation
C8_Witness ==
  /\ lastEvent.op = "mousedownShift"
  /\ lastEvent.wasViewing
  /\ state = "View"
  /\ \E f \in Faces : viewingPatch[f] # 0

\* ------------------------------------------------------------------- C9
\* C9: in every state exactly one layout is on the mesh and it is the one
\* the mode flag names: the flag is true with the viewing material and the
\* viewing UVs applied, or false with the drawing material and drawing UVs.
C9_LayoutAgreesWithFlag ==
  \/ usingViewingTexture /\ meshMaterial = "viewing" /\ meshUvs = "viewing"
  \/ ~usingViewingTexture /\ meshMaterial = "drawing" /\ meshUvs = "drawing"

\* the mesh has been switched to Drawing mode and back to Viewing mode
C9_Witness ==
  /\ usingViewingTexture
  /\ meshMaterial = "viewing"
  /\ drawingSnapshot.rendered
  /\ nPatches > 0

\* ------------------------------------------------------------------ C10
\* C10: at every point of the constructor's loops, and so in the graph it
\* leaves, face i is in the neighbour list of face j whenever j is in the
\* neighbour list of i.
C10_AdjacencySymmetric ==
  \A i, j \in Faces : j \in Neighbors(i) => i \in Neighbors(j)

\* the loops have finished on a mesh and recorded neighbours
C10_Witness ==
  /\ pairsDone = Len(FacePairs(geometry))
  /\ \E i, j \in Faces : i # j /\ j \in Neighbors(i)

\* ------------------------------------------------------------------ C11
\* the faces of the side of the mesh that faces the camera cam
FacingFaces(cam) == {f \in Faces : Dot3(geometry.faces[f].normal, CameraPosition(cam)) = 1}

\* the corners of face f on the drawing canvas after the step
DrawnCorners(f) == {UvToPixel(drawingTextureUvs'[f][j], drawingCanvas') : j \in 1..3}

\* the circle about pos with the radius of the brush after the step contains
\* every corner of face f
CircleCovers(f, pos) ==
  \A c \in DrawnCorners(f) :
    (c.x - pos.x) * (c.x - pos.x) + (c.y - pos.y) * (c.y - pos.y) <= brush'.radius * brush'.radius

\* the stroke sample at pos of the cube scene
CubeSampleAt(pos) ==
  \/ MoveFrame /\ MouseMoveDraw(pos)
  \/ DownFrame /\ \E brushSize \in CubeBrushSizes : MouseDownDraw(pos, brushSize)

InitialViewingUvs == <<InitialViewingUv, InitialViewingUv, InitialViewingUv>>

\* C11: on the cube, with the camera facing one side, a stroke sample whose
\* centre is on that side and whose circle covers the side's two triangles
\* leaves the AffectedFaceSet exactly those two faces; no sample adds a face
\* of another side; and after the first reconciliation the faces whose
\* viewing UVs differ from the initial (0.5, 0.5) are exactly the faces
\* flushed, so exactly those two.
C11_CubeSideStroke ==
  [][/\ \A pos \in CubePointerPositions :
          (/\ CubeSampleAt(pos)
           /\ lastEvent'.seed >= 0
           /\ \A f \in FacingFaces(camera') : CircleCovers(f, pos))
            => /\ AffectedFaceSet' = FacingFaces(camera')
               /\ Cardinality(AffectedFaceSet') = 2
     /\ AffectedFaceSet' \subseteq FacingFaces(camera')
     /\ (nPatches = 0 /\ nPatches' = 1)
          => {f \in Faces : viewingTextureUvs'[f] # InitialViewingUvs} = AffectedFaceSet]_vars

\* a stroke covering the facing side of the cube has been reconciled
C11_Witness ==
  /\ geometry = CubeMesh
  /\ nPatches = 1
  /\ usingViewingTexture
  /\ patchCanvases[1].width = 8
  /\ Cardinality({f \in Faces : viewingTextureUvs[f] # InitialViewingUvs}) = 2
  /\ {f \in Faces : viewingPatch[f] # 0} = FacingFaces(drawingSnapshot.camera)

\* ------------------------------------------------------------------ C12
\* a step in which prepareViewingTexture flushes the AffectedFaceSet
Reconciles == nPatches' = nPatches + 1

\* the u (c = "x") or v (c = "y") numerators of the faces about to be flushed
FlushedCoords(c) ==
  {IF c = "x" THEN drawingTextureUvs[f][j].x ELSE drawingTextureUvs[f][j].y :
     f \in AffectedFaceSet, j \in 1..3}

SetMin(S) == CHOOSE m \in S : \A n \in S : m <= n
SetMax(S) == CHOOSE m \in S : \A n \in S : m >= n

\* the patch canvas made by the step
NewestPatch == patchCanvases'[Len(patchCanvases')]

\* C12: a reconciliation whose flushed faces have drawing UVs spanning
\* u in [0.2, 0.4] and v in [0.3, 0.5] on a drawing canvas of 100 x 100
\* pixels makes a patch canvas of 20 x 20 pixels and copies into it the
\* rectangle (20, 50)-(40, 70) of the drawing canvas; in general the patch is
\* the rectangle from (uMin * width, (1 - vMax) * height) with the size
\* ((uMax - uMin) * width, (vMax - vMin) * height).
C12_PatchRectangle ==
  [][Reconciles =>
       LET us == FlushedCoords("x")
           vs == FlushedCoords("y")
           w == drawingCanvas[1]
           h == drawingCanvas[2]
       IN  /\ (/\ w = 100 /\ h = 100
               /\ SetMin(us) * 10 = 2 * UVDen /\ SetMax(us) * 10 = 4 * UVDen
               /\ SetMin(vs) * 10 = 3 * UVDen /\ SetMax(vs) * 10 = 5 * UVDen)
                => NewestPatch = [sx |-> 20, sy |-> 50, width |-> 20, height |-> 20]
           /\ NewestPatch.sx * UVDen = SetMin(us) * w
           /\ NewestPatch.sy * UVDen = (UVDen - SetMax(vs)) * h
           /\ NewestPatch.width * UVDen = (SetMax(us) - SetMin(us)) * w
           /\ NewestPatch.height * UVDen = (SetMax(vs) - SetMin(vs)) * h]_vars

\* the rectangle of the sheet has been flushed from the 100 x 100 canvas
C12_Witness ==
  /\ geometry = PatchMesh
  /\ drawingCanvas = <<100, 100>>
  /\ usingViewingTexture
  /\ nPatches = 1
  /\ patchCanvases[1] = [sx |-> 20, sy |-> 50, width |-> 20, height |-> 20]
  /\ viewingPatch[2] = 0

\* ------------------------------------------------------------------ C13
\* C13, as the specification states it: a stroke event (pointer-down that
\* starts a stroke, or pointer-move of a stroke) received while the canvas
\* has no pixels leaves the Controls state Idle with the AffectedFaceSet and
\* the visited bitmap empty, and the step creates no patch.
C13_ZeroCanvasAbortsStroke ==
  [][(StrokeSample /\ ZeroSized(canvas))
       => /\ state' = "Idle"
          /\ AffectedFaceSet' = {}
          /\ VisitedSet' = {}
          /\ nPatches' = nPatches]_vars

\* ------------------------------------------------------------------ C14
\* a call of a core operation with the face index i
CallWith(i) ==
  \/ CallAdd(i)
  \/ CallContains(i)
  \/ \E pos \in PointerPositions, r \in BrushSizes : CallAddRecursive(i, pos, r)

\* C14, as the specification states it: a call of add, of contains or of
\* the flood fill (as its seed) with a face index outside [0, faceCount)
\* ends in an InvalidFaceId error and leaves the members and the count of
\* the AffectedFaceSet as they were.
C14_InvalidFaceIdRejected ==
  [][\A i \in FaceIndexInputs \ Faces :
       CallWith(i) => /\ call'.result = "InvalidFaceId"
                      /\ affected'.faces = affected.faces
                      /\ affected'.n = affected.n]_vars

\* ------------------------------------------------------------------ C15
\* the stroke sample at pos
SampleAt(pos) ==
  \/ MoveFrame /\ MouseMoveDraw(pos)
  \/ DownFrame /\ \E brushSize \in BrushSizes : MouseDownDraw(pos, brushSize)

\* the code's intersection test of face f against the sample's circle, on
\* the drawing canvas after the step
TestedIntersecting(f, pos) ==
  FaceIntersectsCircle(drawingTextureUvs'[f], drawingCanvas', pos, brush'.radius)

\* C15, as the specification states it: the visited bitmap is not reset
\* between the samples of a stroke, so a pointer-move of a stroke keeps every
\* mark the bitmap had.
C15_VisitedKeptAcrossSamples ==
  [][PointerMove => VisitedSet \subseteq VisitedSet']_vars

\* C15, as the code has it: the visited bitmap is cleared at every sample
\* whose ray hits the mesh, pointer-move or pointer-down alike, and left as
\* it was by a sample that misses.  After a sample that hits, the marks are
\* that sample's alone: every marked face passes the intersection test
\* against this sample's circle, and the seed is tested afresh, marked
\* exactly when it passes, whatever the bitmap held before.
C15_VisitedResetEverySample ==
  [][/\ \A pos \in PointerPositions :
          (lastEvent'.seed >= 0 /\ SampleAt(pos))
            => /\ \A f \in VisitedSet' : TestedIntersecting(f, pos)
               /\ lastEvent'.seed \in VisitedSet' <=> TestedIntersecting(lastEvent'.seed, pos)
     /\ (lastEvent'.seed < 0 /\ isFloodFill' # isFloodFill) => ~StrokeSample]_vars

\* a pointer-move has hit the mesh and left the bitmap without a face that
\* an earlier sample had marked and added
C15_Witness ==
  /\ lastEvent.op = "mousemove"
  /\ lastEvent.seed >= 0
  /\ state = "Draw"
  /\ VisitedSet # {}
  /\ AffectedFaceSet \ VisitedSet # {}
  /\ nPatches = 0

\* ------------------------------------------------------------------ C16
\* s is a prefix of t
IsPrefix(s, t) == Len(s) <= Len(t) /\ \A i \in 1..Len(s) : s[i] = t[i]

\* C16, as the specification states it: right after a pointer-down that
\* starts a stroke and hits the mesh the AffectedFaceSet holds only the
\* faces of this pointer-down's flood fill.
C16_StrokeStartResetsAffected ==
  [][(PointerDown /\ lastEvent'.seed >= 0) => AffectedFaceSet' = VisitedSet']_vars

\* C16, as the code has it: a pointer-down that starts a stroke does not
\* reset the AffectedFaceSet: the set after it is the set before it, in the
\* same order, followed by the faces its flood fill marked that were not
\* yet in it.  Only a reconciliation takes faces out of the set.
C16_StrokeStartKeepsAffected ==
  [][/\ (PointerDown /\ lastEvent'.seed >= 0)
          => /\ IsPrefix(affected.faces, affected'.faces)
             /\ AffectedFaceSet' = AffectedFaceSet \cup VisitedSet'
     /\ ~(AffectedFaceSet \subseteq AffectedFaceSet') => Reconciles]_vars

\* a stroke has started on a mesh still in Drawing mode and the set holds a
\* face of an earlier stroke that this flood fill did not mark
C16_Witness ==
  /\ lastEvent.op = "mousedown"
  /\ lastEvent.seed >= 0
  /\ ~lastEvent.wasViewing
  /\ state = "Draw"
  /\ lastEvent.seed \in VisitedSet
  /\ AffectedFaceSet \ VisitedSet # {}

\* ------------------------------------------------------------------ C17
\* does the segment from a to b come within r of c (squared distances,
\* the perpendicular one multiplied by the squared length of the segment)
SegmentMeetsCircle(a, b, c, r) ==
  LET dx == b.x - a.x
      dy == b.y - a.y
      lx == c.x - a.x
      ly == c.y - a.y
      d2 == dx * dx + dy * dy
      t == lx * dx + ly * dy
      cross == lx * dy - ly * dx
  IN  IF d2 = 0 \/ t <= 0 THEN lx * lx + ly * ly <= r * r
      ELSE IF t >= d2 THEN (c.x - b.x) * (c.x - b.x) + (c.y - b.y) * (c.y - b.y) <= r * r
      ELSE cross * cross <= r * r * d2

\* is c in the closed triangle v1 v2 v3 of non-zero area
PointInClosedTriangle(c, v1, v2, v3) ==
  LET e(a, b) == (b.x - a.x) * (c.y - a.y) - (b.y - a.y) * (c.x - a.x)
      area == (v2.x - v1.x) * (v3.y - v1.y) - (v2.y - v1.y) * (v3.x - v1.x)
  IN  /\ area # 0
      /\ \/ e(v1, v2) >= 0 /\ e(v2, v3) >= 0 /\ e(v3, v1) >= 0
         \/ e(v1, v2) <= 0 /\ e(v2, v3) <= 0 /\ e(v3, v1) <= 0

\* does the triangle face f has on the drawing canvas after the step have a
\* point in common with the sample's disc
TrulyIntersecting(f, pos) ==
  LET v1 == UvToPixel(drawingTextureUvs'[f][1], drawingCanvas')
      v2 == UvToPixel(drawingTextureUvs'[f][2], drawingCanvas')
      v3 == UvToPixel(drawingTextureUvs'[f][3], drawingCanvas')
      r == brush'.radius
  IN  \/ PointInClosedTriangle(pos, v1, v2, v3)
      \/ SegmentMeetsCircle(v1, v2, pos, r)
      \/ SegmentMeetsCircle(v2, v3, pos, r)
      \/ SegmentMeetsCircle(v3, v1, pos, r)

\* the faces C17 names: those joined to the seed by a path of intersecting
\* faces that, the seed apart, face the camera
NamedFill(seed, pos) ==
  LET S == {f \in Faces :
              /\ TrulyIntersecting(f, pos)
              /\ f = seed \/ Dot3(geometry.faces[f].normal, CameraPosition(camera')) > 0}
  IN  IF seed \in S THEN ReachWithin({seed}, S) ELSE {}

\* C17, as the specification states it: a flood-fill call marks, and puts
\* into the AffectedFaceSet, exactly the faces joined to the seed by a path
\* of faces whose triangles on the drawing canvas intersect the circle and
\* that (the seed apart) face the camera.
C17_FloodFillReachesIntersectingFaces ==
  [][\A pos \in PointerPositions :
       (SampleAt(pos) /\ lastEvent'.seed >= 0)
         => /\ VisitedSet' = NamedFill(lastEvent'.seed, pos)
            /\ AffectedFaceSet' = AffectedFaceSet \cup NamedFill(lastEvent'.seed, pos)]_vars

\* ------------------------------------------------------------------ C19
\* C19: a pointer-move of a stroke keeps every face the AffectedFaceSet
\* had, in the same order, and may only append faces to it.
C19_StrokeContinueOnlyAppends ==
  [][PointerMove => /\ IsPrefix(affected.faces, affected'.faces)
                    /\ AffectedFaceSet \subseteq AffectedFaceSet'
                    /\ affected'.n >= affected.n]_vars

\* a pointer-move has appended faces behind a face of an earlier sample
C19_Witness ==
  /\ lastEvent.op = "mousemove"
  /\ lastEvent.seed >= 0
  /\ state = "Draw"
  /\ affected.n >= 3
  /\ affected.faces[1] # lastEvent.seed
  /\ affected.faces[2] = lastEvent.seed

\* ------------------------------------------------------------------ C20
\* is the fraction <<a, b>> the number n / d
IsQuotient(q, n, d) == q[2] # 0 /\ d # 0 /\ q[1] * d = q[2] * n

\* C20: a reconciliation writes, for every corner of every flushed face,
\* the viewing UV ((u - uMin) * width / patch width, (v - vMin) * height /
\* patch height) of the corner's drawing UV (u, v), with uMin and vMin the
\* minima over all flushed faces and width, height the drawing canvas's;
\* gives all flushed faces the one patch canvas it has just made; and
\* leaves the AffectedFaceSet empty.
C20_ReconciliationRemapsAndClears ==
  [][Reconciles =>
       LET uMin == SetMin(FlushedCoords("x"))
           vMin == SetMin(FlushedCoords("y"))
       IN  /\ \A f \in AffectedFaceSet : \A j \in 1..3 :
                /\ IsQuotient(viewingTextureUvs'[f][j].x,
                              (drawingTextureUvs[f][j].x - uMin) * drawingCanvas[1],
                              UVDen * NewestPatch.width)
                /\ IsQuotient(viewingTextureUvs'[f][j].y,
                              (drawingTextureUvs[f][j].y - vMin) * drawingCanvas[2],
                              UVDen * NewestPatch.height)
           /\ \A f \in AffectedFaceSet : viewingPatch'[f] = Len(patchCanvases')
           /\ \A f \in Faces : viewingPatch[f] # Len(patchCanvases')
           /\ AffectedFaceSet # {}
           /\ AffectedFaceSet' = {}
           /\ affected'.n = 0
           /\ \A f \in Faces : affected'.is[f] = 0]_vars

\* a reconciliation has flushed two faces into one patch
C20_Witness ==
  /\ usingViewingTexture
  /\ affected.n = 0
  /\ \E f, h \in Faces : /\ f # h
                          /\ viewingPatch[f] # 0
                          /\ viewingPatch[f] = viewingPatch[h]
                          /\ viewingTextureUvs[f] # viewingTextureUvs[h]

\* ------------------------------------------------------------------ C18
\* the three points are on one line (or coincide)
Collinear(t0, t1, t2) ==
  (t1.x - t0.x) * (t2.y - t0.y) - (t1.y - t0.y) * (t2.x - t0.x) = 0

\* the corners face f has on the drawing canvas before the step
DrawnBefore(f) == [j \in 1..3 |-> UvToPixel(drawingTextureUvs[f][j], drawingCanvas)]

\* does an edge of face f collide with the circle, by the code's test
EdgeCollides(f, pos, r) ==
  LET v == DrawnBefore(f)
  IN  \/ LineCircleCollide(v[1], v[2], pos, r)
      \/ LineCircleCollide(v[2], v[3], pos, r)
      \/ LineCircleCollide(v[3], v[1], pos, r)

\* C18, as the specification states it: _pointInTriangle returns false for
\* every point when the triangle's corners are on one line or coincide, and
\* a flood fill seeded at a face whose triangle on the drawing canvas is
\* such a triangle, none of whose edges collides with the circle, does not
\* mark or add the face.
C18_DegenerateTriangleHoldsNoPoint ==
  [][/\ \A point \in ProbePoints, t0 \in TrianglePoints, t1 \in TrianglePoints,
          t2 \in TrianglePoints :
          (CallPointInTriangle(point, t0, t1, t2) /\ Collinear(t0, t1, t2))
            => call'.result = "false"
     /\ \A i \in Faces, pos \in PointerPositions, r \in BrushSizes :
          (/\ CallAddRecursive(i, pos, r)
           /\ Collinear(DrawnBefore(i)[1], DrawnBefore(i)[2], DrawnBefore(i)[3])
           /\ ~EdgeCollides(i, pos, r))
            => isFloodFill'[i] = isFloodFill[i] /\ affected' = affected]_vars

\* C21: a stroke is processed in the order of its pointer events. A
\* stroke-continue runs only in state Draw with the move listener installed,
\* and the pointer event before it is the down that started the stroke, an
\* earlier move of it or a down ignored during it, never an up. State Draw
\* is entered only by a pointer-down taken in Idle and left only by the
\* pointer-up, which goes to Idle. The flood-fill marks change only in a
\* stroke-start or a stroke-continue. A move handled in Idle changes nothing
\* of the program state.
C21_StrokeInEventOrder ==
  [][/\ StrokeContinue
          => /\ state = "Draw" /\ state' = "Draw" /\ listening
             /\ \/ lastEvent.op \in {"mousedown", "mousemove"}
                \/ lastEvent.op = "mousedownIgnored" /\ lastEvent.from = "Draw"
     /\ (state # "Draw" /\ state' = "Draw")
          => state = "Idle" /\ lastEvent'.op \in {"mousedown", "mousedownThrew"}
     /\ (state = "Draw" /\ state' # "Draw") => state' = "Idle" /\ lastEvent'.op = "mouseup"
     /\ isFloodFill' # isFloodFill => StrokeStart \/ StrokeContinue
     /\ MouseMoveIdle
          => UNCHANGED <<meshVars, state, viewingVars, affected, isFloodFill, drawingVars,
                         canvas, cameraVars, brush, listening, nPatches, patchCanvases>>]_vars

\* a stroke of a down and a move that hit, ended by its up, and then a move
\* handled in Idle
C21_Witness ==
  /\ state = "Idle"
  /\ lastEvent.op = "mousemoveIdle"
  /\ affected.n >= 2
  /\ ~usingViewingTexture

\* ------------------------------------------------------------------ C22
\* the positions of the corners of face f, and a face with three of them
FacePositions(f) == {geometry.vertices[FaceVertices(geometry, f)[k]] : k \in 1..3}
ProperFace(f) == Cardinality(FacePositions(f)) = 3

\* the corner pairs (k, l) of faces i and j at the same position
Coincidences(i, j) ==
  {kl \in (1..3) \X (1..3) :
     geometry.vertices[FaceVertices(geometry, i)[kl[1]]]
       = geometry.vertices[FaceVertices(geometry, j)[kl[2]]]}

NormalsAgree(i, j) == Dot3(geometry.faces[i].normal, geometry.faces[j].normal) > 0

\* C22 as the specification words it: besides the rule of the two
\* coincidences, faces that share one position or all three are never
\* neighbours.
C22_OneOrThreeSharedNeverNeighbors ==
  ConstructorDone
    => \A i, j \in Faces :
         (i # j /\ Cardinality(FacePositions(i) \cap FacePositions(j)) \in {1, 3})
           => j \notin Neighbors(i)

\* C22: when the constructor has finished, two distinct faces are neighbours
\* exactly if two corner pairs coincide in position and the normals have a
\* positive dot product; for faces with three distinct corner positions
\* that is exactly if they share two positions and the normals agree, so
\* such faces sharing one position or all three, or sharing an edge with
\* perpendicular or opposed normals, are not neighbours.
C22_NeighborsIffTwoCoincidences ==
  ConstructorDone
    => \A i, j \in Faces :
         i # j
           => /\ j \in Neighbors(i)
                   <=> Cardinality(Coincidences(i, j)) = 2 /\ NormalsAgree(i, j)
              /\ (ProperFace(i) /\ ProperFace(j))
                   => (j \in Neighbors(i)
                         <=> /\ Cardinality(FacePositions(i) \cap FacePositions(j)) = 2
                             /\ NormalsAgree(i, j))

\* a finished mesh with a pair of neighbours, a pair that shares an edge
\* under disagreeing normals, and a pair of proper faces that shares one
\* position only
C22_Witness ==
  /\ ConstructorDone
  /\ \E i, j \in Faces : i # j /\ j \in Neighbors(i)
  /\ \E i, j \in Faces :
       /\ Cardinality(Coincidences(i, j)) = 2
       /\ ~NormalsAgree(i, j)
       /\ j \notin Neighbors(i)
  /\ \E i, j \in Faces :
       /\ ProperFace(i) /\ ProperFace(j)
       /\ Cardinality(FacePositions(i) \cap FacePositions(j)) = 1
       /\ j \notin Neighbors(i)

\* ------------------------------------------------------------------ C23
\* what forEach visits, in its order
ForEachVisits(rec) == rec.faces

\* the recorder holds valid face ids, each once, and its count, its flags
\* and the sequence forEach visits agree
RecorderConsistent(rec) ==
  /\ rec.n = Len(ForEachVisits(rec))
  /\ \A k \in 1..Len(ForEachVisits(rec)) : ForEachVisits(rec)[k] \in Faces
  /\ \A k, l \in 1..Len(ForEachVisits(rec)) :
       ForEachVisits(rec)[k] = ForEachVisits(rec)[l] => k = l
  /\ \A f \in FaceIndexInputs :
       RecorderContains(rec, f) <=> \E k \in 1..Len(ForEachVisits(rec)) : ForEachVisits(rec)[k] = f

\* C23: the AffectedFaceSet is consistent after construction, and add and
\* reset with valid face ids keep it so: no duplicates, the count is the
\* number of recorded ids, contains is true exactly for them and forEach
\* visits them once each. add(f) of a recorded f changes nothing; add(f) of
\* another f puts f behind the ids recorded so far, which keep their order,
\* and raises the count by one; so forEach visits in first-insertion order
\* and the count is the number of distinct ids added since the last reset.
C23_AffectedFaceSetConsistent ==
  /\ RecorderConsistent(affected)
  /\ [][(RecorderConsistent(affected) /\ call'.op \in {"add", "reset"})
          => \/ call'.op = "add" /\ call'.faceIndex \notin Faces
             \/ /\ RecorderConsistent(affected')
                /\ call'.op = "add"
                     => IF RecorderContains(affected, call'.faceIndex)
                        THEN affected' = affected
                        ELSE /\ ForEachVisits(affected')
                                  = Append(ForEachVisits(affected), call'.faceIndex)
                             /\ affected'.n = affected.n + 1]_vars

\* add was called for the id recorded first while a second id was recorded
\* behind it
C23_Witness ==
  /\ call.op = "add"
  /\ RecorderConsistent(affected)
  /\ affected.n >= 2
  /\ ForEachVisits(affected)[1] = call.faceIndex

\* ------------------------------------------------------------------ C24
\* C24: reset() leaves the count 0, contains false for every id and nothing
\* for forEach to visit; and the first add of a valid face id after a reset
\* makes that id a member, the only one forEach visits, with the count 1.
C24_ResetEmptiesForReuse ==
  [][/\ call'.op = "reset"
          => /\ affected'.n = 0
             /\ ForEachVisits(affected') = <<>>
             /\ \A f \in FaceIndexInputs : ~RecorderContains(affected', f)
     /\ (call.op = "reset" /\ call'.op = "add" /\ call'.faceIndex \in Faces)
          => /\ affected'.n = 1
             /\ ForEachVisits(affected') = <<call'.faceIndex>>
             /\ \A f \in FaceIndexInputs :
                  RecorderContains(affected', f) <=> f = call'.faceIndex]_vars

\* reset was called after a flood fill had recorded the faces it marked
C24_Witness ==
  /\ call.op = "reset"
  /\ affected.n = 0
  /\ VisitedSet # {}

\* ------------------------------------------------------------------ C25
\* C25: whenever the mesh shows the viewing texture the AffectedFaceSet is
\* empty.
C25_ViewingMeansReconciled == usingViewingTexture => affected.n = 0

\* ------------------------------------------------------------------ C26
\* C26: in state Draw the mesh shows the drawing texture, and in state View
\* it shows the viewing texture.
C26_StateMatchesTexture ==
  /\ state = "Draw" => ~usingViewingTexture
  /\ state = "View" => usingViewingTexture

\* ------------------------------------------------------------------ C27
\* the fraction q is a finite number in [0, 1]
InUnitInterval(q) == q[2] > 0 /\ 0 <= q[1] /\ q[1] <= q[2]

\* C27: every component of every viewing UV of every face is a finite
\* number in [0, 1], before the first reconciliation and after each.
C27_ViewingUvsInUnitSquare ==
  \A f \in Faces : \A j \in 1..3 :
    InUnitInterval(viewingTextureUvs[f][j].x) /\ InUnitInterval(viewingTextureUvs[f][j].y)

\* ------------------------------------------------------------------ C28
\* the faces the AffectedFaceSet holds, as forEach finds them, are distinct
NoFaceRecordedTwice(rec) ==
  \A k, l \in 1..Len(rec.faces) : rec.faces[k] = rec.faces[l] => k = l

\* a step of the fill that expands a face
Expands == FillRunning /\ call'.op = call.op /\ call'.expanded = call.expanded + 1

\* C28: every flood fill that has begun returns; a step that expands a face
\* marks exactly that face, which was unmarked, and no other step of the
\* fill marks or records anything; so a call expands at most as many faces
\* as the mesh has, the activations never lie deeper than that plus one,
\* and no face is recorded twice in the AffectedFaceSet.
C28_FloodFillTerminates ==
  /\ [](FillRunning => /\ call.expanded <= Cardinality(Faces)
                        /\ call.expanded = Cardinality(VisitedSet)
                        /\ Len(call.stack) <= Cardinality(Faces) + 1)
  /\ [](NoFaceRecordedTwice(affected))
  /\ [][FillRunning =>
          IF Expands
          THEN \E f \in Faces :
                 /\ isFloodFill[f] = 0
                 /\ isFloodFill' = [isFloodFill EXCEPT ![f] = 1]
                 /\ AffectedFaceSet' = AffectedFaceSet \cup {f}
          ELSE isFloodFill' = isFloodFill /\ affected' = affected]_vars
  /\ (FillRunning ~> ~FillRunning)

\* a fill has gone round the ring: it has returned with all four sides of
\* the pyramid marked and recorded
C28_Witness ==
  /\ call.op = "onStrokePainted"
  /\ call.stack = <<>>
  /\ call.expanded = Cardinality(Faces)
  /\ VisitedSet = Faces
  /\ AffectedFaceSet = Faces

\* ------------------------------------------------------------------ C29
\* the step is the handling of a pointer-down
PointerDownHandled ==
  /\ lastEvent' # lastEvent
  /\ lastEvent'.op \in {"mousedown", "mousedownThrew", "mousedownShift", "mousedownIgnored"}

\* C29: a pointer-down handled in state Draw or View changes neither the
\* Controls state, the mode flag, the brush, the AffectedFaceSet, the
\* visited bitmap nor the drawing and viewing UVs (nor anything else of the
\* program); and the state becomes Draw or View only from Idle.
C29_PointerDownIgnoredUnlessIdle ==
  [][/\ (state # "Idle" /\ PointerDownHandled)
          => /\ lastEvent'.op = "mousedownIgnored"
             /\ UNCHANGED <<state, usingViewingTexture, brush, affected, isFloodFill,
                            drawingTextureUvs, viewingTextureUvs, meshVars, viewingVars,
                            drawingVars, canvas, cameraVars, listening, nPatches,
                            patchCanvases>>
     /\ (state' # state /\ state' \in {"Draw", "View"}) => state = "Idle"]_vars

\* a pointer-down has been ignored in the middle of a stroke that has
\* recorded faces
C29_Witness ==
  /\ lastEvent.op = "mousedownIgnored"
  /\ lastEvent.from = "Draw"
  /\ state = "Draw"
  /\ brush.stroking
  /\ affected.n > 0

\* ------------------------------------------------------------------ C30
\* the step ran prepareDrawingTexture, wholly or up to its drawImage
PreparesDrawingTexture ==
  drawingSnapshot' # drawingSnapshot \/ drawingTextureUvs' # drawingTextureUvs
    \/ drawingCanvas' # drawingCanvas

\* C30: prepareDrawingTexture runs only in a step that begins in Viewing
\* mode with the viewing material and the viewing UVs on the mesh, and that
\* step ends in Drawing mode unless drawImage threw in it; every snapshot
\* rendered was rendered with the viewing UVs applied, in a pointer-down
\* taken in Idle.
C30_SnapshotOnlyFromViewing ==
  /\ [](drawingSnapshot.rendered => drawingSnapshot.uvs = "viewing")
  /\ [][PreparesDrawingTexture
          => /\ usingViewingTexture /\ meshMaterial = "viewing" /\ meshUvs = "viewing"
             /\ state = "Idle" /\ state' = "Draw"
             /\ \/ ~usingViewingTexture' /\ meshUvs' = "drawing" /\ drawingSnapshot'.rendered
                \/ lastEvent'.op = "mousedownThrew" /\ ~drawingSnapshot'.rendered]_vars

\* a stroke under way on a snapshot of the reconciled viewing texture: the
\* snapshot was rendered after a reconciliation had made a patch
C30_Witness ==
  /\ ~usingViewingTexture
  /\ state = "Draw"
  /\ drawingSnapshot.rendered
  /\ drawingSnapshot.uvs = "viewing"
  /\ \E f \in Faces : viewingPatch[f] # 0

====
